---- MODULE Spec2Model ----
(***************************************************************************)
(* Streaming chat-completion client of the mistral Go package              *)
(* (client.go: CreateChatCompletionStream, streamChatCompletion,           *)
(* handleErrorResponse).                                                   *)
(*                                                                         *)
(* A session is one call of CreateChatCompletionStream: the caller's part  *)
(* (set req.Stream, make the two channels, start the goroutine), the       *)
(* goroutine's part (streamChatCompletion and the deferred statements),    *)
(* the consumer receiving from the chunk channel, and the context that     *)
(* the caller may cancel at any time.                                      *)
(*                                                                         *)
(* A response body is the sequence of lines bufio.Scanner yields for it,   *)
(* each line a sequence of tokens, and the way the body ends: clean end    *)
(* of input, a failed read, or a line longer than the scanner's buffer.    *)
(***************************************************************************)
EXTENDS Integers, Sequences, FiniteSets, TLC

\* Longest response body, in lines.
MaxLines == 3

\* Longest body of the first of two sessions that are compared.
MaxPairLines == 2

Sessions == {1, 2}

-----------------------------------------------------------------------------
(* Lines and payloads *)

\* strings.HasPrefix(line, "data: ") and strings.TrimPrefix(line, "data: "):
\* the prefix is the six characters d a t a : and one space.
Prefix == <<"data:", " ">>

Sentinel == <<"[DONE]">>

LChunkA  == <<"data:", " ", "{A}">>
LChunkB  == <<"data:", " ", "{B}">>
LPadded  == <<"data:", " ", " ", "{B}">>
LDone    == <<"data:", " ", "[DONE]">>
LBad     == <<"data:", " ", "x">>
LBlank   == <<>>
LNoSpace == <<"data:", "{A}">>
LComment == <<":", " ", "x">>
LEvent   == <<"event:", " ", "x">>
\* An error object {"message": "m", "type": "t", "code": "c"} on one line.
LError   == <<"{E}">>
\* Bodies of error responses: an error object that also has a "status_code"
\* member, an empty object, an error nested in an "error" member, plain text.
LStatus == <<"{S}">>
LEmptyObj == <<"{}">>
LNested == <<"{N}">>
LText == <<"text">>

\* Lines a response body is made of.
Lines == {LChunkA, LPadded, LDone, LBad, LBlank, LNoSpace, LError}

\* Lines that do not begin with the prefix: a blank line, "data:" without
\* the blank, an SSE comment, an "event:" line.
SkipLines == {LBlank, LNoSpace, LComment, LEvent}

\* Lines of the bodies of two sessions that are compared.
PairLines == {LChunkA, LChunkB, LBad, LDone}

RECURSIVE SeqsUpTo(_, _)
SeqsUpTo(S, n) ==
  IF n = 0 THEN {<<>>}
  ELSE LET shorter == SeqsUpTo(S, n - 1)
       IN  shorter \cup {Append(q, x) : q \in {r \in shorter : Len(r) = n - 1}, x \in S}

Bodies == SeqsUpTo(Lines, MaxLines)

\* How a body ends after its last line: io.EOF, a failed Read of the
\* connection, or a line longer than bufio.MaxScanTokenSize (ErrTooLong).
BodyEnds == {"eof", "io", "toolong"}

\* Statuses a server answers with.
Statuses == {200, 201, 404}

HasPrefixNoSpace(line) == Len(line) >= 1 /\ line[1] = "data:"

HasPrefix(line) ==
  /\ Len(line) >= Len(Prefix)
  /\ SubSeq(line, 1, Len(Prefix)) = Prefix

TrimPrefix(line) ==
  IF HasPrefix(line) THEN SubSeq(line, Len(Prefix) + 1, Len(line)) ELSE line

\* JSON texts that decode into a ChatCompletionStreamResponse, and the chunk
\* each decodes to (the chunk is told by its ID).
JsonChunk(tok) ==
  CASE tok = "{A}" -> [ID |-> "A"]
    [] tok = "{B}" -> [ID |-> "B"]
    [] OTHER       -> [ID |-> "?"]

IsJson(tok) == tok \in {"{A}", "{B}", "{E}", "{S}", "{}", "{N}"}

\* The message, type and code members of a JSON object (absent members
\* leave the Go zero value "").
JsonMember(tok, key) ==
  IF tok = "{E}"
  THEN CASE key = "message" -> "m" [] key = "type" -> "t" [] key = "code" -> "c"
  ELSE IF tok = "{S}" /\ key = "message" THEN "m"
  ELSE ""

\* encoding/json skips white space (blanks, line ends) around the value.
IsSpace(tok) == tok \in {" ", "LF"}

RECURSIVE TrimSpace(_)
TrimSpace(data) ==
  IF data = <<>> THEN data
  ELSE IF IsSpace(Head(data)) THEN TrimSpace(Tail(data))
  ELSE IF IsSpace(data[Len(data)]) THEN TrimSpace(SubSeq(data, 1, Len(data) - 1))
  ELSE data

\* json.Unmarshal([]byte(data), &chunk): ok and the chunk, or an error.
Unmarshal(data) ==
  LET text == TrimSpace(data)
  IN  IF Len(text) = 1 /\ IsJson(text[1])
      THEN [ok |-> TRUE, chunk |-> JsonChunk(text[1])]
      ELSE [ok |-> FALSE, chunk |-> [ID |-> "?"]]

-----------------------------------------------------------------------------
(* Errors *)

Nil == [kind |-> "nil"]

\* fmt.Errorf(msg + ": %w", cause)
Wrap(msg, cause) == [kind |-> "wrapped", msg |-> msg, cause |-> cause]

\* ctx.Err() of a cancelled context
Canceled == [kind |-> "context canceled"]

IoErr == [kind |-> "io"]

ErrTooLong == [kind |-> "token too long"]

JsonErr == [kind |-> "json"]

NetErr == [kind |-> "net"]

UrlErr == [kind |-> "url"]

\* io.EOF
EofErr == [kind |-> "EOF"]

\* http: read on closed response body
ClosedBodyErr == [kind |-> "closed body"]

\* The bytes of a body: its lines, each followed by a line end.
RECURSIVE Flatten(_)
Flatten(lines) ==
  IF lines = <<>> THEN <<>> ELSE Head(lines) \o <<"LF">> \o Flatten(Tail(lines))

\* (handleErrorResponse with StatusCode decoded from the body like the other
\* members.)
handleErrorResponseBodyStatus(statusCode, lines) ==
  LET raw  == Flatten(lines)
      text == TrimSpace(raw)
  IN  IF Len(text) = 1 /\ IsJson(text[1])
      THEN [kind |-> "APIError",
            StatusCode |-> IF text[1] = "{S}" THEN 999 ELSE 0,
            Message |-> <<JsonMember(text[1], "message")>>,
            Type |-> JsonMember(text[1], "type"),
            Code |-> JsonMember(text[1], "code")]
      ELSE [kind |-> "APIError", StatusCode |-> statusCode,
            Message |-> raw, Type |-> "", Code |-> ""]

\* (handleErrorResponse that falls back to the raw body whenever the body
\* has no message.)
handleErrorResponseShape(statusCode, lines) ==
  LET raw  == Flatten(lines)
      text == TrimSpace(raw)
  IN  IF Len(text) = 1 /\ IsJson(text[1]) /\ JsonMember(text[1], "message") # ""
      THEN [kind |-> "APIError", StatusCode |-> statusCode,
            Message |-> <<JsonMember(text[1], "message")>>,
            Type |-> JsonMember(text[1], "type"),
            Code |-> JsonMember(text[1], "code")]
      ELSE [kind |-> "APIError", StatusCode |-> statusCode,
            Message |-> raw, Type |-> "", Code |-> ""]

\* handleErrorResponse: the body is read whole and decoded as an APIError;
\* StatusCode (json:"-") is always the status of the response.
handleErrorResponseNoStatus(statusCode, lines) ==
  [kind |-> "APIError", StatusCode |-> 0, Message |-> Flatten(lines),
   Type |-> "", Code |-> ""]

handleErrorResponse(statusCode, lines) ==
  LET raw  == Flatten(lines)
      text == TrimSpace(raw)
  IN  IF Len(text) = 1 /\ IsJson(text[1])
      THEN [kind |-> "APIError", StatusCode |-> statusCode,
            Message |-> <<JsonMember(text[1], "message")>>,
            Type |-> JsonMember(text[1], "type"),
            Code |-> JsonMember(text[1], "code")]
      ELSE [kind |-> "APIError", StatusCode |-> statusCode,
            Message |-> raw, Type |-> "", Code |-> ""]

-----------------------------------------------------------------------------
(* State of the sessions *)

VARIABLES
  pc,          \* where each session's goroutine is ("off": no such session)
  reqStream,   \* the Stream field of the caller's request object
  sentStream,  \* the "stream" member of the serialized body ("none" before)
  body,        \* the lines of the response body the server sends
  bodyEnd,     \* how the body ended after its last line ("none": not yet)
  status,      \* the status of the response (0: no response yet)
  bodyState,   \* "none" (no response yet or ever), "open", "closed"
  bodyCloses,  \* number of httpResp.Body.Close() calls
  bodyReads,   \* "none", "scanner" (bufio.Scanner) or "readall" (io.ReadAll)
  pos,         \* number of lines the scanner has yielded
  pending,     \* the chunk at the hand-off, <<>> if none
  delivered,   \* the chunks the consumer received from respChan, in order
  retErr,      \* the return value of streamChatCompletion
  errBuf,      \* the content of errChan (capacity 1)
  errSent,     \* number of sends on errChan
  errCloses,   \* number of close(errChan)
  respCloses,  \* number of close(respChan)
  cancelled,   \* ctx.Done() is closed
  cancelPc,    \* pc at the moment of the cancellation
  cancelLen,   \* Len(delivered) at the moment of the cancellation
  consumer,    \* "receiving": the consumer receives from respChan; "stopped"
  client,      \* the Client: baseURL and apiKey
  reqModel,    \* the Model field of the caller's request object
  httpReq,     \* the HTTP request the session built (NoReq before)
  syncCall,    \* the non-streaming call made, and where the session was then
  syncReq,     \* the HTTP request doRequest built (NoReq before)
  syncResp,    \* the response doRequest got (status 0: none)
  syncRes,     \* the error doRequest returned (NoCall: not returned)
  syncBody,    \* the body of that response: state, Close() calls, reader
  doCalls,     \* number of httpClient.Do calls each session made
  errRecv,     \* what each consumer received from errChan, in order
  callerWrote, \* the caller wrote the request object after the call returned
  sentModel,   \* the "model" member of the serialized body ("none" before)
  timeouts,    \* the Timeout field of each http.Client object (0: not made)
  built        \* the Clients built by NewClient, each with its options

vars == <<pc, reqStream, sentStream, body, bodyEnd, status, bodyState,
          bodyCloses, bodyReads, pos, pending, delivered, retErr, errBuf,
          errSent, errCloses, respCloses, cancelled, cancelPc, cancelLen,
          consumer, client, reqModel, httpReq, syncCall, syncReq, syncResp,
          syncRes, syncBody, doCalls, errRecv, callerWrote, sentModel,
          timeouts, built>>

\* What the server sends.
reqVars == <<body, bodyEnd, status>>
\* The context and the consumer.
envVars == <<cancelled, cancelPc, cancelLen, consumer>>
\* The two channels.
chanVars == <<delivered, errBuf, errSent, errCloses, respCloses>>
\* The response body.
bodyVars == <<bodyState, bodyCloses, bodyReads, pos>>

\* The Client, the request object's other field and the request sent.
callVars == <<client, reqModel, httpReq>>
\* A non-streaming call.
syncVars == <<syncCall, syncReq, syncResp, syncRes, syncBody>>
\* What a session counts and what its caller and consumer do besides.
sessAux == <<doCalls, errRecv, callerWrote, sentModel>>
\* The http.Client objects and the Clients built with options.
optVars == <<timeouts, built>>

\* The http.Client objects: two made by the caller, two made by NewClient.
CallerHttp == {"h1", "h2"}

FreshHttp == <<"n1", "n2">>

HttpObjs == CallerHttp \cup {FreshHttp[i] : i \in 1..Len(FreshHttp)}

\* The Timeout the caller gave its own http.Client objects (seconds).
CallerTimeout(h) == IF h = "h1" THEN 5 ELSE 7

\* A response body nobody has got yet.
NoBody == [state |-> "none", closes |-> 0, reads |-> "none"]

\* defaultBaseURL
defaultBaseURL == <<"https://api.mistral.ai">>

\* NewClient(apiKey) without options
NewClient(apiKey) == [baseURL |-> defaultBaseURL, apiKey |-> apiKey]

\* WithBaseURL(baseURL) applied to a client
WithBaseURL(c, baseURL) == [c EXCEPT !.baseURL = baseURL]

\* No request built.
NoReq ==
  [method |-> "", url |-> <<>>, Authorization |-> <<>>, ContentType |-> "",
   Accept |-> "", body |-> "none"]

NoCall == [kind |-> "none"]

\* errChan := make(chan error, 1)
ErrChanCap == 1

\* http.StatusOK
StatusOK == 200

\* The Model field the caller gave the request object of each session.
OrigModel(s) == IF s = 1 THEN "m1" ELSE "m2"

InitSession(active) ==
  /\ pc = [s \in Sessions |-> IF s \in active THEN "idle" ELSE "off"]
  /\ sentStream = [s \in Sessions |-> "none"]
  /\ bodyState = [s \in Sessions |-> "none"]
  /\ bodyCloses = [s \in Sessions |-> 0]
  /\ bodyReads = [s \in Sessions |-> "none"]
  /\ pos = [s \in Sessions |-> 0]
  /\ pending = [s \in Sessions |-> <<>>]
  /\ delivered = [s \in Sessions |-> <<>>]
  /\ retErr = [s \in Sessions |-> Nil]
  /\ errBuf = [s \in Sessions |-> <<>>]
  /\ errSent = [s \in Sessions |-> 0]
  /\ errCloses = [s \in Sessions |-> 0]
  /\ respCloses = [s \in Sessions |-> 0]
  /\ cancelled = [s \in Sessions |-> FALSE]
  /\ cancelPc = [s \in Sessions |-> "none"]
  /\ cancelLen = [s \in Sessions |-> 0]
  /\ consumer = [s \in Sessions |-> "receiving"]
  /\ bodyEnd = [s \in Sessions |-> "none"]
  /\ status = [s \in Sessions |-> 0]
  /\ reqModel = [s \in Sessions |-> OrigModel(s)]
  /\ httpReq = [s \in Sessions |-> NoReq]
  /\ syncCall = [endpoint |-> "none", obj |-> 0, at |-> "none"]
  /\ syncReq = NoReq
  /\ syncResp = [status |-> 0, body |-> <<>>]
  /\ syncRes = NoCall
  /\ syncBody = NoBody
  /\ doCalls = [s \in Sessions |-> 0]
  /\ errRecv = [s \in Sessions |-> <<>>]
  /\ callerWrote = [s \in Sessions |-> FALSE]
  /\ sentModel = [s \in Sessions |-> "none"]
  /\ timeouts = [h \in HttpObjs |-> IF h \in CallerHttp THEN CallerTimeout(h) ELSE 0]
  /\ built = <<>>

\* One session; the other slot stays unused.
Init ==
  /\ InitSession({1})
  /\ client = NewClient("k1")
  /\ \E b \in Bodies, f \in BOOLEAN :
        /\ body = [s \in Sessions |-> IF s = 1 THEN b ELSE <<>>]
        /\ reqStream = [s \in Sessions |-> IF s = 1 THEN f ELSE FALSE]

-----------------------------------------------------------------------------
(* CreateChatCompletionStream and its goroutine *)

\* (CreateChatCompletionStream that leaves the caller's request object alone.)
CreateChatCompletionStreamNoMark(s) ==
  /\ pc[s] = "idle"
  /\ pc' = [pc EXCEPT ![s] = "marshal"]
  /\ UNCHANGED <<reqStream, sentStream, pending, retErr>>
  /\ UNCHANGED <<reqVars, envVars, chanVars, bodyVars>>
  /\ UNCHANGED <<callVars, syncVars>>
  /\ UNCHANGED <<sessAux, optVars>>

\* (CreateChatCompletionStream that serializes the request before it
\* returns.)
CreateChatCompletionStreamEager(s) ==
  /\ pc[s] = "idle"
  /\ reqStream' = [reqStream EXCEPT ![s] = TRUE]
  /\ sentStream' = [sentStream EXCEPT ![s] = "true"]
  /\ sentModel' = [sentModel EXCEPT ![s] = reqModel[s]]
  /\ pc' = [pc EXCEPT ![s] = "newRequest"]
  /\ UNCHANGED <<pending, retErr>>
  /\ UNCHANGED <<reqVars, envVars, chanVars, bodyVars>>
  /\ UNCHANGED <<callVars, syncVars>>
  /\ UNCHANGED <<doCalls, errRecv, callerWrote, optVars>>

\* The caller's part: req.Stream = true, the two channels are made and the
\* goroutine is started; the call returns at once.
CreateChatCompletionStream(s) ==
  /\ pc[s] = "idle"
  /\ reqStream' = [reqStream EXCEPT ![s] = TRUE]
  /\ pc' = [pc EXCEPT ![s] = "marshal"]
  /\ UNCHANGED <<sentStream, pending, retErr>>
  /\ UNCHANGED <<reqVars, envVars, chanVars, bodyVars>>
  /\ UNCHANGED <<callVars, syncVars>>
  /\ UNCHANGED <<sessAux, optVars>>

\* (ReturnEarly with the error dropped.)
ReturnEarlyDropped(s, err) ==
  /\ retErr' = [retErr EXCEPT ![s] = Nil]
  /\ pc' = [pc EXCEPT ![s] = "sendErr"]

\* streamChatCompletion returns err before a response exists: nothing is
\* deferred yet, the goroutine goes on to "if err != nil { errChan <- err }".
ReturnEarly(s, err) ==
  /\ retErr' = [retErr EXCEPT ![s] = err]
  /\ pc' = [pc EXCEPT ![s] = "sendErr"]

\* (Return without the deferred Body.Close.)
ReturnLeak(s, err) == ReturnEarly(s, err)

\* streamChatCompletion returns err with the body open: the deferred
\* httpResp.Body.Close() runs next.
Return(s, err) ==
  /\ retErr' = [retErr EXCEPT ![s] = err]
  /\ pc' = [pc EXCEPT ![s] = "closeBody"]

\* jsonData, err := json.Marshal(req)
Marshal(s) ==
  /\ pc[s] = "marshal"
  /\ \/ /\ ReturnEarly(s, Wrap("failed to marshal request", JsonErr))
        /\ UNCHANGED <<sentStream, sentModel>>
     \/ /\ sentStream' = [sentStream EXCEPT ![s] = IF reqStream[s] THEN "true" ELSE "false"]
        /\ sentModel' = [sentModel EXCEPT ![s] = reqModel[s]]
        /\ pc' = [pc EXCEPT ![s] = "newRequest"]
        /\ UNCHANGED retErr
  /\ UNCHANGED <<reqStream, pending>>
  /\ UNCHANGED <<reqVars, envVars, chanVars, bodyVars>>
  /\ UNCHANGED <<callVars, syncVars>>
  /\ UNCHANGED <<doCalls, errRecv, callerWrote, optVars>>

\* (The streaming request with the Accept header of doRequest.)
StreamRequestJsonAccept(c, data) ==
  [method |-> "POST", url |-> c.baseURL \o <<"/v1/chat/completions">>,
   Authorization |-> <<"Bearer ", c.apiKey>>,
   ContentType |-> "application/json",
   Accept |-> "application/json", body |-> data]

\* The request streamChatCompletion builds: method, URL, body, three headers.
StreamRequest(c, data) ==
  [method |-> "POST", url |-> c.baseURL \o <<"/v1/chat/completions">>,
   Authorization |-> <<"Bearer ", c.apiKey>>,
   ContentType |-> "application/json",
   Accept |-> "text/event-stream", body |-> data]

\* http.NewRequestWithContext(ctx, POST, baseURL + path, body) and the headers
NewRequest(s) ==
  /\ pc[s] = "newRequest"
  /\ \/ /\ ReturnEarly(s, Wrap("failed to create request", UrlErr))
        /\ UNCHANGED httpReq
     \/ /\ httpReq' = [httpReq EXCEPT ![s] = StreamRequest(client, sentStream[s])]
        /\ pc' = [pc EXCEPT ![s] = "do"]
        /\ UNCHANGED retErr
  /\ UNCHANGED <<reqStream, sentStream, pending>>
  /\ UNCHANGED <<reqVars, envVars, chanVars, bodyVars>>
  /\ UNCHANGED <<client, reqModel, syncVars>>
  /\ UNCHANGED <<sessAux, optVars>>

\* (Do that tries once more after a transport failure.)
DoRetry(s) ==
  /\ pc[s] = "do"
  /\ \/ /\ cancelled[s]
        /\ ReturnEarly(s, Wrap("failed to execute request", Canceled))
        /\ UNCHANGED bodyVars
        /\ UNCHANGED status
     \/ /\ ~cancelled[s]
        /\ IF doCalls[s] = 0
           THEN UNCHANGED <<pc, retErr>>
           ELSE ReturnEarly(s, Wrap("failed to execute request", NetErr))
        /\ UNCHANGED bodyVars
        /\ UNCHANGED status
     \/ /\ ~cancelled[s]
        /\ bodyState' = [bodyState EXCEPT ![s] = "open"]
        /\ \E st \in Statuses :
             /\ status' = [status EXCEPT ![s] = st]
             /\ IF st # StatusOK
                THEN /\ Return(s, handleErrorResponse(st, body[s]))
                     /\ bodyReads' = [bodyReads EXCEPT ![s] = "readall"]
                ELSE /\ pc' = [pc EXCEPT ![s] = "scan"]
                     /\ UNCHANGED <<retErr, bodyReads>>
        /\ UNCHANGED <<bodyCloses, pos>>
  /\ doCalls' = [doCalls EXCEPT ![s] = @ + 1]
  /\ UNCHANGED <<reqStream, sentStream, pending>>
  /\ UNCHANGED <<body, bodyEnd, envVars, chanVars>>
  /\ UNCHANGED <<callVars, syncVars>>
  /\ UNCHANGED <<errRecv, callerWrote, sentModel, optVars>>

\* httpResp, err := c.httpClient.Do(httpReq); defer httpResp.Body.Close();
\* if httpResp.StatusCode != http.StatusOK { return c.handleErrorResponse(httpResp) }
\* A request whose context is already cancelled fails with the context's error.
Do(s) ==
  /\ pc[s] = "do"
  /\ \/ /\ cancelled[s]
        /\ ReturnEarly(s, Wrap("failed to execute request", Canceled))
        /\ UNCHANGED bodyVars
        /\ UNCHANGED status
     \/ /\ ~cancelled[s]
        /\ ReturnEarly(s, Wrap("failed to execute request", NetErr))
        /\ UNCHANGED bodyVars
        /\ UNCHANGED status
     \/ /\ ~cancelled[s]
        /\ bodyState' = [bodyState EXCEPT ![s] = "open"]
        /\ \E st \in Statuses :
             /\ status' = [status EXCEPT ![s] = st]
             /\ IF st # StatusOK
                THEN /\ Return(s, handleErrorResponse(st, body[s]))
                     /\ bodyReads' = [bodyReads EXCEPT ![s] = "readall"]
                ELSE /\ pc' = [pc EXCEPT ![s] = "scan"]
                     /\ UNCHANGED <<retErr, bodyReads>>
        /\ UNCHANGED <<bodyCloses, pos>>
  /\ doCalls' = [doCalls EXCEPT ![s] = @ + 1]
  /\ UNCHANGED <<reqStream, sentStream, pending>>
  /\ UNCHANGED <<body, bodyEnd, envVars, chanVars>>
  /\ UNCHANGED <<callVars, syncVars>>
  /\ UNCHANGED <<errRecv, callerWrote, sentModel, optVars>>

\* (scanner.Err() never looked at.)
ScannerErrIgnored(end) == Nil

\* (scanner.Err() with the end of input reported as an error.)
ScannerErrEof(end) ==
  CASE end = "eof"     -> Wrap("error reading stream", [kind |-> "EOF"])
    [] end = "io"      -> Wrap("error reading stream", IoErr)
    [] end = "toolong" -> Wrap("error reading stream", ErrTooLong)

\* scanner.Err() after the loop: nil at io.EOF.
ScannerErr(end) ==
  CASE end = "eof"     -> Nil
    [] end = "io"      -> Wrap("error reading stream", IoErr)
    [] end = "toolong" -> Wrap("error reading stream", ErrTooLong)

\* (HandleLine with the sentinel skipped like a line without the prefix.)
HandleLineIgnoreDone(s, line) ==
  IF ~HasPrefix(line) \/ TrimPrefix(line) = Sentinel
  THEN UNCHANGED <<pc, retErr, pending>>
  ELSE IF ~Unmarshal(TrimPrefix(line)).ok
  THEN /\ Return(s, Wrap("failed to unmarshal stream chunk", JsonErr))
       /\ UNCHANGED pending
  ELSE /\ pending' = [pending EXCEPT ![s] = <<Unmarshal(TrimPrefix(line)).chunk>>]
       /\ pc' = [pc EXCEPT ![s] = "select"]
       /\ UNCHANGED retErr

\* (HandleLine with a buffered respChan: the chunk is queued and the loop
\* goes on.)
HandleLineBuffered(s, line) ==
  IF ~HasPrefix(line)
  THEN UNCHANGED <<pc, retErr, pending>>
  ELSE IF TrimPrefix(line) = Sentinel
  THEN Return(s, Nil) /\ UNCHANGED pending
  ELSE IF ~Unmarshal(TrimPrefix(line)).ok
  THEN /\ Return(s, Wrap("failed to unmarshal stream chunk", JsonErr))
       /\ UNCHANGED pending
  ELSE /\ pending' = [pending EXCEPT ![s] = Append(@, Unmarshal(TrimPrefix(line)).chunk)]
       /\ pc' = [pc EXCEPT ![s] = IF pending[s] = <<>> THEN "scan" ELSE "select"]
       /\ UNCHANGED retErr

\* (HandleLine with a malformed payload skipped instead of returned.)
HandleLineSkipBad(s, line) ==
  IF ~HasPrefix(line) \/ (TrimPrefix(line) # Sentinel /\ ~Unmarshal(TrimPrefix(line)).ok)
  THEN UNCHANGED <<pc, retErr, pending>>
  ELSE IF TrimPrefix(line) = Sentinel
  THEN Return(s, Nil) /\ UNCHANGED pending
  ELSE /\ pending' = [pending EXCEPT ![s] = <<Unmarshal(TrimPrefix(line)).chunk>>]
       /\ pc' = [pc EXCEPT ![s] = "select"]
       /\ UNCHANGED retErr

\* One turn of "for scanner.Scan()": up to the hand-off of a chunk, a return,
\* or the next turn.
HandleLine(s, line) ==
  IF ~HasPrefix(line)
  THEN UNCHANGED <<pc, retErr, pending>>
  ELSE LET data == TrimPrefix(line)
           dec  == Unmarshal(data)
       IN  IF data = Sentinel
           THEN Return(s, Nil) /\ UNCHANGED pending
           ELSE IF ~dec.ok
           THEN /\ Return(s, Wrap("failed to unmarshal stream chunk", JsonErr))
                /\ UNCHANGED pending
           ELSE /\ pending' = [pending EXCEPT ![s] = <<dec.chunk>>]
                /\ pc' = [pc EXCEPT ![s] = "select"]
                /\ UNCHANGED retErr

Scan(s) ==
  /\ pc[s] = "scan"
  /\ bodyReads' = [bodyReads EXCEPT ![s] = "scanner"]
  /\ IF bodyState[s] # "open"
     THEN /\ Return(s, Wrap("error reading stream", ClosedBodyErr))
          /\ UNCHANGED <<pos, pending, bodyEnd>>
     ELSE \/ /\ pos[s] < Len(body[s])
             /\ pos' = [pos EXCEPT ![s] = pos[s] + 1]
             /\ HandleLine(s, body[s][pos[s] + 1])
             /\ UNCHANGED bodyEnd
          \/ /\ pos[s] = Len(body[s])
             /\ \E e \in BodyEnds :
                  /\ bodyEnd' = [bodyEnd EXCEPT ![s] = e]
                  /\ Return(s, ScannerErr(e))
             /\ UNCHANGED <<pos, pending>>
          \/ \* the transport fails a Read once the context is cancelled
             /\ cancelled[s]
             /\ Return(s, Wrap("error reading stream", Canceled))
             /\ UNCHANGED <<pos, pending, bodyEnd>>
  /\ UNCHANGED <<reqStream, sentStream, bodyState, bodyCloses>>
  /\ UNCHANGED <<body, status, envVars, chanVars>>
  /\ UNCHANGED <<callVars, syncVars>>
  /\ UNCHANGED <<sessAux, optVars>>

\* (Deliver with the chunk put in front of the ones received.)
DeliverReordered(s) ==
  /\ pc[s] = "select"
  /\ consumer[s] = "receiving"
  /\ delivered' = [delivered EXCEPT ![s] = <<pending[s][1]>> \o @]
  /\ pending' = [pending EXCEPT ![s] = <<>>]
  /\ pc' = [pc EXCEPT ![s] = "scan"]
  /\ UNCHANGED <<reqStream, sentStream, retErr>>
  /\ UNCHANGED <<errBuf, errSent, errCloses, respCloses>>
  /\ UNCHANGED <<reqVars, envVars, bodyVars>>
  /\ UNCHANGED <<callVars, syncVars>>
  /\ UNCHANGED <<sessAux, optVars>>

\* (A hand-off into a buffered respChan: the producer goes on while the
\* chunk waits in the buffer, not yet received.)
DeliverBuffered(s) ==
  /\ pc[s] = "select"
  /\ consumer[s] = "receiving"
  /\ pending' = [pending EXCEPT ![s] = <<>>]
  /\ pc' = [pc EXCEPT ![s] = "scan"]
  /\ UNCHANGED <<reqStream, sentStream, retErr>>
  /\ UNCHANGED <<delivered, errBuf, errSent, errCloses, respCloses>>
  /\ UNCHANGED <<reqVars, envVars, bodyVars>>
  /\ UNCHANGED <<callVars, syncVars>>
  /\ UNCHANGED <<sessAux, optVars>>

\* (A hand-off on a chunk channel kept in the Client and shared by its
\* sessions: the consumer of any session receives the chunk.)
DeliverShared(s) ==
  /\ pc[s] = "select"
  /\ \E r \in {x \in Sessions : pc[x] # "off"} :
       /\ consumer[r] = "receiving"
       /\ delivered' = [delivered EXCEPT ![r] = Append(@, pending[s][1])]
  /\ pending' = [pending EXCEPT ![s] = <<>>]
  /\ pc' = [pc EXCEPT ![s] = "scan"]
  /\ UNCHANGED <<reqStream, sentStream, retErr>>
  /\ UNCHANGED <<errBuf, errSent, errCloses, respCloses>>
  /\ UNCHANGED <<reqVars, envVars, bodyVars>>
  /\ UNCHANGED <<callVars, syncVars>>
  /\ UNCHANGED <<sessAux, optVars>>

\* select { case respChan <- chunk: ...}: the consumer receives the chunk.
Deliver(s) ==
  /\ pc[s] = "select"
  /\ consumer[s] = "receiving"
  /\ IF respCloses[s] > 0
     THEN /\ pc' = [pc EXCEPT ![s] = "panic"]
          /\ UNCHANGED <<delivered, pending>>
     ELSE /\ delivered' = [delivered EXCEPT ![s] = Append(@, pending[s][1])]
          /\ pending' = [pending EXCEPT ![s] = <<>>]
          /\ pc' = [pc EXCEPT ![s] = "scan"]
  /\ UNCHANGED <<reqStream, sentStream, retErr>>
  /\ UNCHANGED <<errBuf, errSent, errCloses, respCloses>>
  /\ UNCHANGED <<reqVars, envVars, bodyVars>>
  /\ UNCHANGED <<callVars, syncVars>>
  /\ UNCHANGED <<sessAux, optVars>>

\* (A hand-off that does not watch ctx.Done(): a bare "respChan <- chunk".)
AbortMissing(s) ==
  /\ pc[s] = "select"
  /\ cancelled[s]
  /\ FALSE
  /\ UNCHANGED vars

\* (Abort that reports the error on errChan itself and goes on scanning.)
AbortNoReturn(s) ==
  /\ pc[s] = "select"
  /\ cancelled[s]
  /\ Len(errBuf[s]) < ErrChanCap
  /\ errBuf' = [errBuf EXCEPT ![s] = Append(@, Canceled)]
  /\ errSent' = [errSent EXCEPT ![s] = @ + 1]
  /\ pending' = [pending EXCEPT ![s] = <<>>]
  /\ pc' = [pc EXCEPT ![s] = "scan"]
  /\ UNCHANGED <<reqStream, sentStream, retErr>>
  /\ UNCHANGED <<delivered, errCloses, respCloses>>
  /\ UNCHANGED <<reqVars, envVars, bodyVars>>
  /\ UNCHANGED <<callVars, syncVars>>
  /\ UNCHANGED <<sessAux, optVars>>

\* (A hand-off that also gives up when the consumer has stopped receiving.)
AbortOnStop(s) ==
  /\ pc[s] = "select"
  /\ cancelled[s] \/ consumer[s] = "stopped"
  /\ Return(s, Canceled)
  /\ pending' = [pending EXCEPT ![s] = <<>>]
  /\ UNCHANGED <<reqStream, sentStream>>
  /\ UNCHANGED <<reqVars, envVars, chanVars, bodyVars>>
  /\ UNCHANGED <<callVars, syncVars>>
  /\ UNCHANGED <<sessAux, optVars>>

\* select { ... case <-ctx.Done(): return ctx.Err() }
Abort(s) ==
  /\ pc[s] = "select"
  /\ cancelled[s]
  /\ Return(s, Canceled)
  /\ pending' = [pending EXCEPT ![s] = <<>>]
  /\ UNCHANGED <<reqStream, sentStream>>
  /\ UNCHANGED <<reqVars, envVars, chanVars, bodyVars>>
  /\ UNCHANGED <<callVars, syncVars>>
  /\ UNCHANGED <<sessAux, optVars>>

\* deferred in streamChatCompletion: httpResp.Body.Close()
CloseBody(s) ==
  /\ pc[s] = "closeBody"
  /\ bodyState' = [bodyState EXCEPT ![s] = "closed"]
  /\ bodyCloses' = [bodyCloses EXCEPT ![s] = @ + 1]
  /\ pc' = [pc EXCEPT ![s] = "sendErr"]
  /\ UNCHANGED <<reqStream, sentStream, pending, retErr, bodyReads, pos>>
  /\ UNCHANGED <<reqVars, envVars, chanVars>>
  /\ UNCHANGED <<callVars, syncVars>>
  /\ UNCHANGED <<sessAux, optVars>>

\* if err := c.streamChatCompletion(...); err != nil { errChan <- err }
SendErr(s) ==
  /\ pc[s] = "sendErr"
  /\ IF retErr[s] = Nil
     THEN /\ pc' = [pc EXCEPT ![s] = "closeErr"]
          /\ UNCHANGED <<errBuf, errSent>>
     ELSE IF errCloses[s] > 0
     THEN /\ pc' = [pc EXCEPT ![s] = "panic"]
          /\ UNCHANGED <<errBuf, errSent>>
     ELSE /\ Len(errBuf[s]) < ErrChanCap
          /\ errBuf' = [errBuf EXCEPT ![s] = Append(@, retErr[s])]
          /\ errSent' = [errSent EXCEPT ![s] = @ + 1]
          /\ pc' = [pc EXCEPT ![s] = "closeErr"]
  /\ UNCHANGED <<reqStream, sentStream, pending, retErr>>
  /\ UNCHANGED <<delivered, errCloses, respCloses>>
  /\ UNCHANGED <<reqVars, envVars, bodyVars>>
  /\ UNCHANGED <<callVars, syncVars>>
  /\ UNCHANGED <<sessAux, optVars>>

\* (The two defers written in the other order: close(respChan) runs first,
\* close(errChan) last.)
CloseErrChanLast(s) ==
  /\ pc[s] = "closeErr"
  /\ IF respCloses[s] = 0
     THEN /\ respCloses' = [respCloses EXCEPT ![s] = @ + 1]
          /\ UNCHANGED <<pc, errCloses>>
     ELSE /\ errCloses' = [errCloses EXCEPT ![s] = @ + 1]
          /\ pc' = [pc EXCEPT ![s] = "done"]
          /\ UNCHANGED respCloses
  /\ UNCHANGED <<reqStream, sentStream, pending, retErr>>
  /\ UNCHANGED <<delivered, errBuf, errSent>>
  /\ UNCHANGED <<reqVars, envVars, bodyVars>>
  /\ UNCHANGED <<callVars, syncVars>>
  /\ UNCHANGED <<sessAux, optVars>>

\* deferred second, so run first: close(errChan)
CloseErrChan(s) ==
  /\ pc[s] = "closeErr"
  /\ errCloses' = [errCloses EXCEPT ![s] = @ + 1]
  /\ pc' = [pc EXCEPT ![s] = IF errCloses[s] > 0 THEN "panic" ELSE "closeResp"]
  /\ UNCHANGED <<reqStream, sentStream, pending, retErr>>
  /\ UNCHANGED <<delivered, errBuf, errSent, respCloses>>
  /\ UNCHANGED <<reqVars, envVars, bodyVars>>
  /\ UNCHANGED <<callVars, syncVars>>
  /\ UNCHANGED <<sessAux, optVars>>

\* deferred first, so run last: close(respChan)
CloseRespChan(s) ==
  /\ pc[s] = "closeResp"
  /\ respCloses' = [respCloses EXCEPT ![s] = @ + 1]
  /\ pc' = [pc EXCEPT ![s] = IF respCloses[s] > 0 THEN "panic" ELSE "done"]
  /\ UNCHANGED <<reqStream, sentStream, pending, retErr>>
  /\ UNCHANGED <<delivered, errBuf, errSent, errCloses>>
  /\ UNCHANGED <<reqVars, envVars, bodyVars>>
  /\ UNCHANGED <<callVars, syncVars>>
  /\ UNCHANGED <<sessAux, optVars>>

-----------------------------------------------------------------------------
(* The caller's context and the consumer *)

\* streamChatCompletion has not returned: the context is still read.
Running(s) == pc[s] \in {"idle", "marshal", "newRequest", "do", "scan", "select"}

\* (cancel() that stops the goroutine wherever it is.)
CancelPreempts(s) ==
  /\ Running(s)
  /\ ~cancelled[s]
  /\ cancelled' = [cancelled EXCEPT ![s] = TRUE]
  /\ cancelPc' = [cancelPc EXCEPT ![s] = pc[s]]
  /\ cancelLen' = [cancelLen EXCEPT ![s] = Len(delivered[s])]
  /\ retErr' = [retErr EXCEPT ![s] = Canceled]
  /\ pending' = [pending EXCEPT ![s] = <<>>]
  /\ pc' = [pc EXCEPT ![s] = IF bodyState[s] = "open" THEN "closeBody" ELSE "sendErr"]
  /\ UNCHANGED <<reqStream, sentStream, consumer>>
  /\ UNCHANGED <<reqVars, chanVars, bodyVars>>
  /\ UNCHANGED <<callVars, syncVars>>
  /\ UNCHANGED <<sessAux, optVars>>

\* cancel()
Cancel(s) ==
  /\ Running(s)
  /\ ~cancelled[s]
  /\ cancelled' = [cancelled EXCEPT ![s] = TRUE]
  /\ cancelPc' = [cancelPc EXCEPT ![s] = pc[s]]
  /\ cancelLen' = [cancelLen EXCEPT ![s] = Len(delivered[s])]
  /\ UNCHANGED <<pc, reqStream, sentStream, pending, retErr, consumer>>
  /\ UNCHANGED <<reqVars, chanVars, bodyVars>>
  /\ UNCHANGED <<callVars, syncVars>>
  /\ UNCHANGED <<sessAux, optVars>>

\* The consumer stops receiving from respChan and leaves a chunk pending.
ConsumerStop(s) ==
  /\ pc[s] = "select"
  /\ consumer[s] = "receiving"
  /\ consumer' = [consumer EXCEPT ![s] = "stopped"]
  /\ UNCHANGED <<pc, reqStream, sentStream, pending, retErr>>
  /\ UNCHANGED <<cancelled, cancelPc, cancelLen>>
  /\ UNCHANGED <<reqVars, chanVars, bodyVars>>
  /\ UNCHANGED <<callVars, syncVars>>
  /\ UNCHANGED <<sessAux, optVars>>

\* The caller writes the request object it passed, after the call returned
\* and while the session runs: it resets Stream or changes Model (what a
\* reuse of the object for another request does).
CallerWrite(s) ==
  /\ pc[s] \notin {"off", "idle", "done"}
  /\ ~callerWrote[s]
  /\ callerWrote' = [callerWrote EXCEPT ![s] = TRUE]
  /\ \/ /\ reqStream' = [reqStream EXCEPT ![s] = FALSE]
        /\ UNCHANGED reqModel
     \/ /\ reqModel' = [reqModel EXCEPT ![s] = "other"]
        /\ UNCHANGED reqStream
  /\ UNCHANGED <<pc, sentStream, pending, retErr>>
  /\ UNCHANGED <<reqVars, envVars, chanVars, bodyVars>>
  /\ UNCHANGED <<client, httpReq, syncVars>>
  /\ UNCHANGED <<doCalls, errRecv, sentModel, optVars>>

\* A receive from errChan is ready: a value is buffered or the channel is
\* closed (a closed channel yields nil).
ErrReady(s) == errBuf[s] # <<>> \/ errCloses[s] > 0

ErrHead(s) == IF errBuf[s] # <<>> THEN errBuf[s][1] ELSE Nil

\* The consumer of the doc comment: "for chunk := range respChan {...}"
\* has seen respChan closed, then "if err := <-errChan; err != nil".
RecvErrAfterRange(s) ==
  /\ consumer[s] = "receiving"
  /\ respCloses[s] > 0
  /\ ErrReady(s)
  /\ errRecv' = [errRecv EXCEPT ![s] = Append(@, ErrHead(s))]
  /\ errBuf' = [errBuf EXCEPT ![s] = IF @ = <<>> THEN @ ELSE Tail(@)]
  /\ consumer' = [consumer EXCEPT ![s] = "finished"]
  /\ UNCHANGED <<pc, reqStream, sentStream, pending, retErr>>
  /\ UNCHANGED <<delivered, errSent, errCloses, respCloses>>
  /\ UNCHANGED <<cancelled, cancelPc, cancelLen>>
  /\ UNCHANGED <<reqVars, bodyVars>>
  /\ UNCHANGED <<callVars, syncVars>>
  /\ UNCHANGED <<doCalls, callerWrote, sentModel, optVars>>

\* The consumer of the README, "case chunk, ok := <-respChan: if !ok
\* { return }": respChan is closed, the consumer returns.
ReadmeClosed(s) ==
  /\ consumer[s] = "receiving"
  /\ respCloses[s] > 0
  /\ consumer' = [consumer EXCEPT ![s] = "finished"]
  /\ UNCHANGED <<pc, reqStream, sentStream, pending, retErr>>
  /\ UNCHANGED <<cancelled, cancelPc, cancelLen>>
  /\ UNCHANGED <<reqVars, chanVars, bodyVars>>
  /\ UNCHANGED <<callVars, syncVars>>
  /\ UNCHANGED <<sessAux, optVars>>

\* The consumer of the README, "case err := <-errChan: if err != nil
\* { log.Fatal(err) }; return".
ReadmeErr(s) ==
  /\ consumer[s] = "receiving"
  /\ ErrReady(s)
  /\ errRecv' = [errRecv EXCEPT ![s] = Append(@, ErrHead(s))]
  /\ errBuf' = [errBuf EXCEPT ![s] = IF @ = <<>> THEN @ ELSE Tail(@)]
  /\ consumer' = [consumer EXCEPT ![s] = "finished"]
  /\ UNCHANGED <<pc, reqStream, sentStream, pending, retErr>>
  /\ UNCHANGED <<delivered, errSent, errCloses, respCloses>>
  /\ UNCHANGED <<cancelled, cancelPc, cancelLen>>
  /\ UNCHANGED <<reqVars, bodyVars>>
  /\ UNCHANGED <<callVars, syncVars>>
  /\ UNCHANGED <<doCalls, callerWrote, sentModel, optVars>>

\* The consumer of the README, "case <-ctx.Done(): return".
ReadmeCtxDone(s) ==
  /\ consumer[s] = "receiving"
  /\ cancelled[s]
  /\ consumer' = [consumer EXCEPT ![s] = "finished"]
  /\ UNCHANGED <<pc, reqStream, sentStream, pending, retErr>>
  /\ UNCHANGED <<cancelled, cancelPc, cancelLen>>
  /\ UNCHANGED <<reqVars, chanVars, bodyVars>>
  /\ UNCHANGED <<callVars, syncVars>>
  /\ UNCHANGED <<sessAux, optVars>>

Next ==
  \E s \in Sessions :
    \/ CreateChatCompletionStream(s)
    \/ Marshal(s)
    \/ NewRequest(s)
    \/ Do(s)
    \/ Scan(s)
    \/ Deliver(s)
    \/ Abort(s)
    \/ CloseBody(s)
    \/ SendErr(s)
    \/ CloseErrChan(s)
    \/ CloseRespChan(s)
    \/ Cancel(s)
    \/ ConsumerStop(s)

Spec == Init /\ [][Next]_vars

-----------------------------------------------------------------------------
(* Two sessions to compare: the caller runs them one after the other, never
   cancels and receives every chunk. *)

InsertAt(lines, i, l) == SubSeq(lines, 1, i) \o <<l>> \o SubSeq(lines, i + 1, Len(lines))

\* The second body is the first one followed by the sentinel line.
InitEof ==
  /\ InitSession(Sessions)
  /\ client = NewClient("k1")
  /\ reqStream = [s \in Sessions |-> FALSE]
  /\ \E L \in SeqsUpTo((PairLines \ {LDone}) \cup {LBlank}, MaxPairLines) :
        body = [s \in Sessions |-> IF s = 1 THEN L ELSE L \o <<LDone>>]

\* The second body is the first one with one more line that has no prefix.
InitSkip ==
  /\ InitSession(Sessions)
  /\ client = NewClient("k1")
  /\ reqStream = [s \in Sessions |-> FALSE]
  /\ \E b \in SeqsUpTo(PairLines, MaxPairLines) :
        \E i \in 0..Len(b), l \in SkipLines :
          body = [s \in Sessions |-> IF s = 1 THEN b ELSE InsertAt(b, i, l)]

CallInTurn(s) ==
  /\ \A r \in Sessions : r < s => pc[r] = "done"
  /\ CreateChatCompletionStream(s)

NextInTurn ==
  \E s \in Sessions :
    \/ CallInTurn(s)
    \/ Marshal(s)
    \/ NewRequest(s)
    \/ Do(s)
    \/ Scan(s)
    \/ Deliver(s)
    \/ CloseBody(s)
    \/ SendErr(s)
    \/ CloseErrChan(s)
    \/ CloseRespChan(s)

SpecEof == InitEof /\ [][NextInTurn]_vars

SpecSkip == InitSkip /\ [][NextInTurn]_vars

\* The steps of a session's goroutine.  The Go scheduler runs a goroutine
\* that can take a step; a hand-off can be taken while the consumer receives
\* or the context is cancelled.
Goroutine(s) ==
  \/ Marshal(s)
  \/ NewRequest(s)
  \/ Do(s)
  \/ Scan(s)
  \/ Deliver(s)
  \/ Abort(s)
  \/ CloseBody(s)
  \/ SendErr(s)
  \/ CloseErrChan(s)
  \/ CloseRespChan(s)

\* Lines of the bodies termination is checked on: a chunk, a malformed
\* payload, the sentinel, a line without the prefix.
LiveLines == {LChunkA, LBad, LDone, LBlank}

InitLive ==
  /\ InitSession({1})
  /\ client = NewClient("k1")
  /\ reqStream = [s \in Sessions |-> FALSE]
  /\ \E b \in SeqsUpTo(LiveLines, MaxLines) :
        body = [s \in Sessions |-> IF s = 1 THEN b ELSE <<>>]

LiveSpec == InitLive /\ [][Next]_vars /\ \A s \in Sessions : WF_vars(Goroutine(s))

\* Two sessions started on the same Client, each with its own request
\* object, context, channels and response; their steps interleave freely.
TwoBodies ==
  [a : {<<LChunkA, LDone>>, <<LChunkA, LChunkA>>, <<LDone, LChunkA>>},
   b : {<<LChunkB, LChunkA>>, <<LBad>>}]

InitTwo ==
  /\ InitSession(Sessions)
  /\ client = NewClient("k1")
  /\ reqStream = [s \in Sessions |-> FALSE]
  /\ \E b \in TwoBodies :
        body = [s \in Sessions |-> IF s = 1 THEN b.a ELSE b.b]

SpecTwo == InitTwo /\ [][Next]_vars

\* A session whose caller writes the request object while it runs.
NextCaller ==
  \/ Next
  \/ \E s \in Sessions : CallerWrite(s)

InitCaller ==
  /\ InitSession({1})
  /\ client = NewClient("k1")
  /\ \E b \in SeqsUpTo(LiveLines, MaxPairLines), f \in BOOLEAN :
        /\ body = [s \in Sessions |-> IF s = 1 THEN b ELSE <<>>]
        /\ reqStream = [s \in Sessions |-> IF s = 1 THEN f ELSE FALSE]

SpecCaller == InitCaller /\ [][NextCaller]_vars

\* A session whose consumer is the one of the doc comment of
\* CreateChatCompletionStream: it ranges over respChan, then receives once
\* from errChan.
NextRange ==
  \E s \in Sessions :
    \/ CreateChatCompletionStream(s)
    \/ Marshal(s)
    \/ NewRequest(s)
    \/ Do(s)
    \/ Scan(s)
    \/ Deliver(s)
    \/ Abort(s)
    \/ CloseBody(s)
    \/ SendErr(s)
    \/ CloseErrChan(s)
    \/ CloseRespChan(s)
    \/ Cancel(s)
    \/ RecvErrAfterRange(s)

SpecRange == InitLive /\ [][NextRange]_vars

\* A session whose consumer is the select loop of the README.
NextReadme ==
  \E s \in Sessions :
    \/ CreateChatCompletionStream(s)
    \/ Marshal(s)
    \/ NewRequest(s)
    \/ Do(s)
    \/ Scan(s)
    \/ Deliver(s)
    \/ Abort(s)
    \/ CloseBody(s)
    \/ SendErr(s)
    \/ CloseErrChan(s)
    \/ CloseRespChan(s)
    \/ Cancel(s)
    \/ ReadmeClosed(s)
    \/ ReadmeErr(s)
    \/ ReadmeCtxDone(s)

SpecReadme == InitLive /\ [][NextReadme]_vars

-----------------------------------------------------------------------------
(* doRequest and the calls made through it *)

\* Bodies a server answers a non-streaming call or a failed call with.
SyncLines == {LError, LStatus, LEmptyObj, LNested, LText}

SyncBodies == {<<>>, <<LError, LText>>} \cup {<<l>> : l \in SyncLines}

\* The request doRequest builds: method, URL, body (data, "nil" for none),
\* three headers.
JsonRequest(c, method, path, data) ==
  [method |-> method, url |-> c.baseURL \o <<path>>,
   Authorization |-> <<"Bearer ", c.apiKey>>,
   ContentType |-> "application/json",
   Accept |-> "application/json", body |-> data]

\* json.NewDecoder(resp.Body).Decode(result): the first JSON value of the
\* body is decoded, what follows it is not read; no value at all is io.EOF.
Decode(lines) ==
  LET text == TrimSpace(Flatten(lines))
  IN  IF text = <<>> THEN Wrap("failed to decode response", EofErr)
      ELSE IF IsJson(text[1]) THEN Nil
      ELSE Wrap("failed to decode response", JsonErr)

\* Statuses a server answers a non-streaming call with.
SyncStatuses == Statuses \cup {204}

\* (The success test of the streaming path used by doRequest.)
IsFailureNotOK(st) == st # StatusOK

\* resp.StatusCode < 200 || resp.StatusCode >= 300
IsFailure(st) == st < 200 \/ st >= 300

\* (doRequest that decodes the body whether or not a result was passed.)
doRequestAlwaysDecode(method, path, data, hasResult) ==
  \/ /\ data # "nil"
     /\ syncRes' = Wrap("failed to marshal request body", JsonErr)
     /\ UNCHANGED <<syncReq, syncResp, syncBody>>
  \/ /\ syncRes' = Wrap("failed to create request", UrlErr)
     /\ UNCHANGED <<syncReq, syncResp, syncBody>>
  \/ /\ syncReq' = JsonRequest(client, method, path, data)
     /\ \/ /\ syncRes' = Wrap("failed to execute request", NetErr)
           /\ UNCHANGED <<syncResp, syncBody>>
        \/ \E st \in SyncStatuses, b \in SyncBodies :
             /\ syncResp' = [status |-> st, body |-> b]
             /\ syncBody' = [state |-> "closed", closes |-> 1,
                              reads |-> IF IsFailure(st) THEN "readall" ELSE "decoder"]
             /\ syncRes' = IF IsFailure(st) THEN handleErrorResponse(st, b)
                            ELSE Decode(b)

\* doRequest(ctx, method, path, body, result), from the call to its return;
\* data is the serialized body ("nil": body == nil).
doRequest(method, path, data, hasResult) ==
  \/ /\ data # "nil"
     /\ syncRes' = Wrap("failed to marshal request body", JsonErr)
     /\ UNCHANGED <<syncReq, syncResp, syncBody>>
  \/ /\ syncRes' = Wrap("failed to create request", UrlErr)
     /\ UNCHANGED <<syncReq, syncResp, syncBody>>
  \/ /\ syncReq' = JsonRequest(client, method, path, data)
     /\ \/ /\ syncRes' = Wrap("failed to execute request", NetErr)
           /\ UNCHANGED <<syncResp, syncBody>>
        \/ \E st \in SyncStatuses, b \in SyncBodies :
             /\ syncResp' = [status |-> st, body |-> b]
             /\ syncBody' = [state |-> "closed", closes |-> 1,
                              reads |-> IF IsFailure(st) THEN "readall"
                                        ELSE IF hasResult THEN "decoder"
                                        ELSE "none"]
             /\ syncRes' = IF IsFailure(st) THEN handleErrorResponse(st, b)
                            ELSE IF hasResult THEN Decode(b)
                            ELSE Nil

\* No session is running (calls are made between sessions: a call shares no
\* state with a session but the Client and the request object it reads).
Quiet == \A s \in Sessions : pc[s] \in {"off", "idle", "done"}

\* CreateChatCompletion(ctx, req) with the request object of session s,
\* after that session.
CreateChatCompletion(s) ==
  /\ pc[s] = "done"
  /\ syncRes = NoCall
  /\ syncCall' = [endpoint |-> "CreateChatCompletion", obj |-> s, at |-> pc[s]]
  /\ doRequest("POST", "/v1/chat/completions",
               IF reqStream[s] THEN "true" ELSE "false", TRUE)
  /\ UNCHANGED <<pc, reqStream, sentStream, pending, retErr>>
  /\ UNCHANGED <<reqVars, envVars, chanVars, bodyVars>>
  /\ UNCHANGED callVars
  /\ UNCHANGED <<sessAux, optVars>>

\* ListModels(ctx)
ListModels ==
  /\ Quiet
  /\ \E s \in Sessions : pc[s] = "done"
  /\ syncRes = NoCall
  /\ syncCall' = [endpoint |-> "ListModels", obj |-> 0, at |-> "none"]
  /\ doRequest("GET", "/v1/models", "nil", TRUE)
  /\ UNCHANGED <<pc, reqStream, sentStream, pending, retErr>>
  /\ UNCHANGED <<reqVars, envVars, chanVars, bodyVars>>
  /\ UNCHANGED callVars
  /\ UNCHANGED <<sessAux, optVars>>

\* doRequest(ctx, DELETE, "/test", nil, nil): no request body, no result.
DoRequestNilResult ==
  /\ Quiet
  /\ \E s \in Sessions : pc[s] = "done"
  /\ syncRes = NoCall
  /\ syncCall' = [endpoint |-> "doRequest", obj |-> 0, at |-> "none"]
  /\ doRequest("DELETE", "/test", "nil", FALSE)
  /\ UNCHANGED <<pc, reqStream, sentStream, pending, retErr>>
  /\ UNCHANGED <<reqVars, envVars, chanVars, bodyVars>>
  /\ UNCHANGED callVars
  /\ UNCHANGED <<sessAux, optVars>>

\* The request DownloadFile builds: GET, no body, the Authorization header
\* only.
DownloadRequest(c, fileID) ==
  [method |-> "GET", url |-> c.baseURL \o <<"/v1/files/", fileID, "/content">>,
   Authorization |-> <<"Bearer ", c.apiKey>>,
   ContentType |-> "", Accept |-> "", body |-> "nil"]

\* What DownloadFile returns: the reader (the response body or nil) and the
\* error.
Pair(reader, err) == [kind |-> "pair", reader |-> reader, err |-> err]

\* (DownloadFile with the body's Close deferred on every path, as in
\* doRequest.)
DownloadFileDeferClose ==
  /\ syncRes = NoCall
  /\ syncCall' = [endpoint |-> "DownloadFile", obj |-> 0, at |-> "none"]
  /\ \/ /\ syncRes' = Pair("nil", Wrap("failed to create request", UrlErr))
        /\ UNCHANGED <<syncReq, syncResp, syncBody>>
     \/ /\ syncReq' = DownloadRequest(client, "file-123")
        /\ \/ /\ syncRes' = Pair("nil", Wrap("failed to execute request", NetErr))
              /\ UNCHANGED <<syncResp, syncBody>>
           \/ \E st \in SyncStatuses, b \in SyncBodies :
                /\ syncResp' = [status |-> st, body |-> b]
                /\ IF IsFailure(st)
                   THEN /\ syncBody' = [state |-> "closed", closes |-> 1, reads |-> "readall"]
                        /\ syncRes' = Pair("nil", handleErrorResponse(st, b))
                   ELSE /\ syncBody' = [state |-> "closed", closes |-> 1, reads |-> "none"]
                        /\ syncRes' = Pair("body", Nil)
  /\ UNCHANGED <<pc, reqStream, sentStream, pending, retErr>>
  /\ UNCHANGED <<reqVars, envVars, chanVars, bodyVars>>
  /\ UNCHANGED callVars
  /\ UNCHANGED <<sessAux, optVars>>

\* DownloadFile(ctx, fileID), from the call to its return.
DownloadFile ==
  /\ syncRes = NoCall
  /\ syncCall' = [endpoint |-> "DownloadFile", obj |-> 0, at |-> "none"]
  /\ \/ /\ syncRes' = Pair("nil", Wrap("failed to create request", UrlErr))
        /\ UNCHANGED <<syncReq, syncResp, syncBody>>
     \/ /\ syncReq' = DownloadRequest(client, "file-123")
        /\ \/ /\ syncRes' = Pair("nil", Wrap("failed to execute request", NetErr))
              /\ UNCHANGED <<syncResp, syncBody>>
           \/ \E st \in SyncStatuses, b \in SyncBodies :
                /\ syncResp' = [status |-> st, body |-> b]
                /\ IF IsFailure(st)
                   THEN /\ syncBody' = [state |-> "closed", closes |-> 1, reads |-> "readall"]
                        /\ syncRes' = Pair("nil", handleErrorResponse(st, b))
                   ELSE /\ syncBody' = [state |-> "open", closes |-> 0, reads |-> "none"]
                        /\ syncRes' = Pair("body", Nil)
  /\ UNCHANGED <<pc, reqStream, sentStream, pending, retErr>>
  /\ UNCHANGED <<reqVars, envVars, chanVars, bodyVars>>
  /\ UNCHANGED callVars
  /\ UNCHANGED <<sessAux, optVars>>

\* The caller reads the reader it got: io.ReadAll(reader).
ReaderRead ==
  /\ syncRes.kind = "pair"
  /\ syncRes.reader = "body"
  /\ syncBody.state = "open"
  /\ syncBody.reads = "none"
  /\ syncBody' = [syncBody EXCEPT !.reads = "caller"]
  /\ UNCHANGED <<syncCall, syncReq, syncResp, syncRes>>
  /\ UNCHANGED <<pc, reqStream, sentStream, pending, retErr>>
  /\ UNCHANGED <<reqVars, envVars, chanVars, bodyVars>>
  /\ UNCHANGED callVars
  /\ UNCHANGED <<sessAux, optVars>>

\* The caller closes the reader it got: reader.Close().
ReaderClose ==
  /\ syncRes.kind = "pair"
  /\ syncRes.reader = "body"
  /\ syncBody.state = "open"
  /\ syncBody' = [syncBody EXCEPT !.state = "closed by caller"]
  /\ UNCHANGED <<syncCall, syncReq, syncResp, syncRes>>
  /\ UNCHANGED <<pc, reqStream, sentStream, pending, retErr>>
  /\ UNCHANGED <<reqVars, envVars, chanVars, bodyVars>>
  /\ UNCHANGED callVars
  /\ UNCHANGED <<sessAux, optVars>>

\* Client configurations: the default one and one with WithBaseURL.
Clients ==
  {NewClient("k1"), WithBaseURL(NewClient("k2"), <<"http://localhost", "/api">>)}

\* One streaming session and one non-streaming call on the same Client.
InitSync ==
  /\ InitSession({1})
  /\ client \in Clients
  /\ \E b \in SyncBodies \cup SeqsUpTo(PairLines, MaxPairLines), f \in BOOLEAN :
        /\ body = [s \in Sessions |-> IF s = 1 THEN b ELSE <<>>]
        /\ reqStream = [s \in Sessions |-> IF s = 1 THEN f ELSE FALSE]

NextSync ==
  \/ Next
  \/ \E s \in Sessions : CreateChatCompletion(s)
  \/ ListModels
  \/ DoRequestNilResult

SpecSync == InitSync /\ [][NextSync]_vars

\* One DownloadFile call and what its caller does with the reader; there is
\* no streaming session.
InitDownload ==
  /\ InitSession({})
  /\ client \in Clients
  /\ body = [s \in Sessions |-> <<>>]
  /\ reqStream = [s \in Sessions |-> FALSE]

NextDownload ==
  \/ DownloadFile
  \/ ReaderRead
  \/ ReaderClose

SpecDownload == InitDownload /\ [][NextDownload]_vars

-----------------------------------------------------------------------------
(* NewClient and its options *)

\* Longest list of options passed to NewClient.
MaxOpts == 2

\* defaultTimeout (seconds)
defaultTimeout == 60

\* The nil *http.Client
NilHttp == "nil"

\* The options a caller passes: a base URL, one of its own http.Client
\* objects or nil, a timeout (seconds).
Options ==
  {[op |-> "WithBaseURL", arg |-> u] : u \in {<<"http://a">>, <<"http://b">>}}
  \cup {[op |-> "WithHTTPClient", arg |-> h] : h \in CallerHttp \cup {NilHttp}}
  \cup {[op |-> "WithTimeout", arg |-> d] : d \in {10, 30}}

\* WithHTTPClient(httpClient) applied to a client
WithHTTPClient(c, httpClient) == [c EXCEPT !.httpClient = httpClient]

\* (WithTimeout that leaves an http.Client made by the caller alone.)
WithTimeoutOwnOnly(c, heap, timeout) ==
  IF c.httpClient \in CallerHttp THEN heap
  ELSE [heap EXCEPT ![c.httpClient] = timeout]

\* WithTimeout(timeout) applied to a client: the object the client holds is
\* written, the client is not.
WithTimeout(c, heap, timeout) == [heap EXCEPT ![c.httpClient] = timeout]

\* (An option that keeps a base URL or http.Client set by an earlier one.)
ApplyOptionFirstWins(o, st) ==
  IF st.panic THEN st
  ELSE CASE o.op = "WithBaseURL" ->
              [st EXCEPT !.c = IF st.c.baseURL = defaultBaseURL
                               THEN WithBaseURL(st.c, o.arg) ELSE st.c]
         [] o.op = "WithHTTPClient" ->
              [st EXCEPT !.c = IF st.c.httpClient \notin CallerHttp \cup {NilHttp}
                               THEN WithHTTPClient(st.c, o.arg) ELSE st.c]
         [] o.op = "WithTimeout" ->
              IF st.c.httpClient = NilHttp THEN [st EXCEPT !.panic = TRUE]
              ELSE [st EXCEPT !.heap = WithTimeout(st.c, st.heap, o.arg)]

\* opt(client) for one option: the client and the http.Client objects after.
\* c.httpClient.Timeout = timeout through a nil pointer panics, and the
\* panic leaves NewClient: no later option runs.
ApplyOption(o, st) ==
  IF st.panic THEN st
  ELSE CASE o.op = "WithBaseURL"    -> [st EXCEPT !.c = WithBaseURL(st.c, o.arg)]
         [] o.op = "WithHTTPClient" -> [st EXCEPT !.c = WithHTTPClient(st.c, o.arg)]
         [] o.op = "WithTimeout"    ->
              IF st.c.httpClient = NilHttp THEN [st EXCEPT !.panic = TRUE]
              ELSE [st EXCEPT !.heap = WithTimeout(st.c, st.heap, o.arg)]

\* for _, opt := range opts { opt(client) }
RECURSIVE ApplyOptions(_, _)
ApplyOptions(opts, st) ==
  IF opts = <<>> THEN st
  ELSE ApplyOptions(Tail(opts), ApplyOption(Head(opts), st))

\* NewClient(apiKey, opts...): fresh is the http.Client object it makes.
NewClientWith(apiKey, opts, fresh, heap) ==
  ApplyOptions(opts,
    [c    |-> [baseURL |-> defaultBaseURL, apiKey |-> apiKey, httpClient |-> fresh],
     heap |-> [heap EXCEPT ![fresh] = defaultTimeout],
     panic |-> FALSE])

\* A caller builds one more Client; the http.Client objects before and
\* after are kept with it. When NewClient panicked the caller has no Client
\* and c is the one that was under construction.
BuildClient ==
  /\ Len(built) < Len(FreshHttp)
  /\ \E opts \in SeqsUpTo(Options, MaxOpts) :
       LET fresh == FreshHttp[Len(built) + 1]
           r     == NewClientWith("k1", opts, fresh, timeouts)
       IN  /\ built' = Append(built, [opts |-> opts, c |-> r.c, fresh |-> fresh,
                                      panic |-> r.panic,
                                      before |-> timeouts, after |-> r.heap])
           /\ timeouts' = r.heap
  /\ UNCHANGED <<pc, reqStream, sentStream, pending, retErr>>
  /\ UNCHANGED <<reqVars, envVars, chanVars, bodyVars>>
  /\ UNCHANGED <<callVars, syncVars>>
  /\ UNCHANGED sessAux

InitOptions ==
  /\ InitSession({})
  /\ client = NewClient("k1")
  /\ body = [s \in Sessions |-> <<>>]
  /\ reqStream = [s \in Sessions |-> FALSE]

NextOptions == BuildClient

SpecOptions == InitOptions /\ [][NextOptions]_vars

-----------------------------------------------------------------------------
(* The wire format, as the claims read it *)

IsDataLine(l) == Len(l) >= 2 /\ l[1] = "data:" /\ l[2] = " "

Payload(l) == SubSeq(l, 3, Len(l))

IsDoneLine(l) == IsDataLine(l) /\ Payload(l) = <<"[DONE]">>

\* The chunk a well-formed payload carries.
PayloadChunk(l) ==
  LET text == SelectSeq(Payload(l), LAMBDA tok : tok # " ")
  IN  IF text = <<"{A}">> THEN <<[ID |-> "A"]>>
      ELSE IF text = <<"{B}">> THEN <<[ID |-> "B"]>>
      ELSE IF text = <<"{E}">> THEN <<[ID |-> "?"]>>
      ELSE <<>>

IsChunkLine(l) == IsDataLine(l) /\ ~IsDoneLine(l) /\ PayloadChunk(l) # <<>>

IsBadLine(l) == IsDataLine(l) /\ ~IsDoneLine(l) /\ PayloadChunk(l) = <<>>

\* The decoded payloads of the chunk lines of a body, in input order.
RECURSIVE Chunks(_)
Chunks(lines) ==
  IF lines = <<>> THEN <<>>
  ELSE (IF IsChunkLine(Head(lines)) THEN PayloadChunk(Head(lines)) ELSE <<>>)
         \o Chunks(Tail(lines))

\* The first line that is the sentinel or a malformed payload (0: none).
FirstStop(lines) ==
  LET stops == {i \in 1..Len(lines) : IsDoneLine(lines[i]) \/ IsBadLine(lines[i])}
  IN  IF stops = {} THEN 0 ELSE CHOOSE i \in stops : \A j \in stops : i <= j

Before(lines, i) == SubSeq(lines, 1, i - 1)

IsPrefixOf(p, q) == Len(p) <= Len(q) /\ SubSeq(q, 1, Len(p)) = p

\* What a receive from errChan yields once it is closed.
ErrYield(s) == IF errBuf[s] = <<>> THEN Nil ELSE errBuf[s][1]

\* A session that got a 200 response, was never cancelled and whose consumer
\* receives every chunk.
Undisturbed(s) ==
  status[s] = StatusOK /\ ~cancelled[s] /\ consumer[s] = "receiving"

ParseErr == Wrap("failed to unmarshal stream chunk", JsonErr)

-----------------------------------------------------------------------------
(* Claims *)

\* C1: in an undisturbed session over a well-formed body that ends with the
\* line "data: [DONE]", the chunks received are at every moment a prefix of
\* the decoded payloads of the data lines before the sentinel, in input
\* order, and once the session is over they are all of them and the error
\* channel yields nil.
C1_SentinelDeliversAll ==
  \A s \in Sessions :
    LET k == FirstStop(body[s])
    IN  ( /\ Undisturbed(s)
          /\ body[s] # <<>>
          /\ IsDoneLine(body[s][Len(body[s])])
          /\ IsDoneLine(body[s][k]) )
        => /\ IsPrefixOf(delivered[s], Chunks(Before(body[s], k)))
           /\ pc[s] = "done" =>
                /\ delivered[s] = Chunks(Before(body[s], k))
                /\ errCloses[s] = 1
                /\ ErrYield(s) = Nil

C1_Witness ==
  /\ pc[1] = "done"
  /\ Undisturbed(1)
  /\ body[1] = <<LChunkA, LPadded, LDone>>
  /\ delivered[1] = <<[ID |-> "A"], [ID |-> "B"]>>

\* C2: in an undisturbed session whose first malformed payload is on line i,
\* with no sentinel before it, only the chunks of the data lines before
\* line i are ever delivered, no line after line i is read, and the session
\* ends with exactly those chunks delivered and the parse error.
C2_MalformedPayloadStops ==
  \A s \in Sessions :
    LET i == FirstStop(body[s])
    IN  ( /\ Undisturbed(s)
          /\ i > 0
          /\ IsBadLine(body[s][i]) )
        => /\ IsPrefixOf(delivered[s], Chunks(Before(body[s], i)))
           /\ pos[s] <= i
           /\ pc[s] = "done" =>
                /\ delivered[s] = Chunks(Before(body[s], i))
                /\ pos[s] = i
                /\ ErrYield(s) = ParseErr

C2_Witness ==
  /\ pc[1] = "done"
  /\ Undisturbed(1)
  /\ body[1] = <<LChunkA, LBad, LDone>>
  /\ delivered[1] = <<[ID |-> "A"]>>
  /\ ErrYield(1) = ParseErr

\* C3 (as claimed): once the context is cancelled after the consumer received
\* chunk n, no further chunk is delivered.
C3_NoChunkAfterCancel ==
  \A s \in Sessions :
    (cancelled[s] /\ cancelLen[s] >= 1) => Len(delivered[s]) = cancelLen[s]

\* C4 (as claimed): a session whose context was cancelled while it was
\* scanning or at a hand-off ends with exactly the context's error.
C4_CancelYieldsCtxErr ==
  \A s \in Sessions :
    (pc[s] = "done" /\ cancelled[s] /\ cancelPc[s] \in {"scan", "select"})
      => ErrYield(s) = Canceled

\* C5: a response whose status is not 200 delivers no chunk, its body is
\* never given to the scanner, and the session ends with an APIError that
\* carries exactly that status.
C5_Non200IsAPIError ==
  \A s \in Sessions :
    (status[s] # 0 /\ status[s] # 200)
      => /\ delivered[s] = <<>>
         /\ pending[s] = <<>>
         /\ pos[s] = 0
         /\ bodyReads[s] # "scanner"
         /\ pc[s] = "done" =>
              /\ ErrYield(s).kind = "APIError"
              /\ ErrYield(s).StatusCode = status[s]

C5_Witness ==
  /\ pc[1] = "done"
  /\ status[1] = 404
  /\ body[1] = <<LChunkA, LDone>>
  /\ ErrYield(1).kind = "APIError"

\* C6: at most one value is ever sent on errChan, each channel is closed at
\* most once, no send or close hits a closed channel (no panic), a send on
\* errChan happens only while errChan is open, a chunk is handed over only
\* while respChan is open, and once an error is on errChan no further chunk
\* is delivered.
C6_ChannelDiscipline ==
  /\ [](\A s \in Sessions :
          /\ errSent[s] <= 1
          /\ Len(errBuf[s]) <= 1
          /\ errCloses[s] <= 1
          /\ respCloses[s] <= 1
          /\ pc[s] # "panic")
  /\ [][\A s \in Sessions :
          /\ errSent'[s] # errSent[s] => errCloses[s] = 0
          /\ delivered'[s] # delivered[s] => (respCloses[s] = 0 /\ errSent[s] = 0)]_vars

C6_Witness ==
  /\ pc[1] = "done"
  /\ Len(delivered[1]) = 2
  /\ errSent[1] = 1
  /\ errBuf[1] = <<ParseErr>>
  /\ errCloses[1] = 1
  /\ respCloses[1] = 1

\* C7: under fair scheduling of the goroutine, a started session whose
\* consumer keeps receiving, or whose context is eventually cancelled, closes
\* both channels, although nothing is ever received from errChan; and a
\* session that returned nil closes errChan with nothing sent on it.
C7_EventuallyClosed ==
  /\ \A s \in Sessions :
        ([](consumer[s] = "receiving") \/ <>cancelled[s])
          => [](pc[s] = "marshal" => <>(errCloses[s] = 1 /\ respCloses[s] = 1))
  /\ [](\A s \in Sessions :
          (pc[s] \in {"closeResp", "done"} /\ retErr[s] = Nil)
            => (errSent[s] = 0 /\ errBuf[s] = <<>> /\ ErrYield(s) = Nil))

C7_Witness ==
  /\ pc[1] = "done"
  /\ consumer[1] = "stopped"
  /\ cancelled[1]
  /\ errBuf[1] = <<Canceled>>
  /\ errCloses[1] = 1
  /\ respCloses[1] = 1

\* The goroutine is past streamChatCompletion and its deferred Close.
PastBody(s) == pc[s] \in {"sendErr", "closeErr", "closeResp", "done"}

\* C8: the body is closed at most once; with a response, it is closed exactly
\* once before errChan or respChan is closed, on every exit path, and it is
\* not read once closed; without a response there is no body and no Close.
C8_BodyClosedOnce ==
  \A s \in Sessions :
    /\ bodyCloses[s] <= 1
    /\ (bodyState[s] = "closed") = (bodyCloses[s] = 1)
    /\ (status[s] # 0 /\ (PastBody(s) \/ errCloses[s] > 0 \/ respCloses[s] > 0))
         => (bodyState[s] = "closed" /\ bodyCloses[s] = 1)
    /\ bodyState[s] = "closed" => PastBody(s)
    /\ (retErr[s].kind = "wrapped") => retErr[s].cause # ClosedBodyErr
    /\ status[s] = 0 => (bodyState[s] = "none" /\ bodyCloses[s] = 0)

C8_Witness ==
  /\ pc[1] = "done"
  /\ cancelled[1]
  /\ retErr[1] = Canceled
  /\ Len(delivered[1]) = 1
  /\ bodyState[1] = "closed"
  /\ bodyCloses[1] = 1

\* Both sessions are over, each after a 200 response.
BothDone == \A s \in Sessions : pc[s] = "done" /\ status[s] = StatusOK

\* C9 (as claimed): for every body L without a sentinel line, the session
\* over L that ends at a clean end of input and the session over L followed
\* by "data: [DONE]" deliver the same chunks and both end with a nil error.
C9_EofLikeSentinelNil ==
  (BothDone /\ bodyEnd[1] \in {"none", "eof"})
    => /\ delivered[1] = delivered[2]
       /\ ErrYield(1) = Nil
       /\ ErrYield(2) = Nil

\* C9 (amended): the two sessions deliver the same chunks and end with the
\* same terminal error, which is nil when every data line of L decodes.
C9_EofLikeSentinel ==
  (BothDone /\ bodyEnd[1] \in {"none", "eof"})
    => /\ delivered[1] = delivered[2]
       /\ ErrYield(1) = ErrYield(2)
       /\ (\A i \in 1..Len(body[1]) : ~IsBadLine(body[1][i]))
            => (ErrYield(1) = Nil /\ delivered[1] = Chunks(body[1]))

C9_Witness ==
  /\ BothDone
  /\ bodyEnd[1] = "eof"
  /\ body[1] = <<LChunkA, LChunkB>>
  /\ body[2] = <<LChunkA, LChunkB, LDone>>
  /\ delivered[2] = <<[ID |-> "A"], [ID |-> "B"]>>

\* C10: a body and the same body with one more line that does not begin with
\* "data: ", put anywhere, give the same delivered chunks and the same
\* terminal error (the two bodies ending the same way).
C10_SkipLineChangesNothing ==
  (BothDone /\ bodyEnd[1] = bodyEnd[2])
    => /\ delivered[1] = delivered[2]
       /\ ErrYield(1) = ErrYield(2)

C10_Witness ==
  /\ BothDone
  /\ body[1] = <<LChunkA, LChunkB>>
  /\ body[2] = <<LChunkA, LNoSpace, LChunkB>>
  /\ bodyEnd[1] = "eof"
  /\ bodyEnd[2] = "eof"
  /\ delivered[2] = <<[ID |-> "A"], [ID |-> "B"]>>

\* The goroutine has left the loop of streamChatCompletion.
PastLoop(s) == pc[s] \in {"closeBody", "sendErr", "closeErr", "closeResp", "done"}

\* C11: once the scanner has yielded a line "data: [DONE]", that line is the
\* last one read: the loop is left with a nil return, nothing is pending,
\* the chunks delivered are those of the lines before it, nothing is sent
\* on errChan and the session ends with a nil terminal error, whatever
\* follows the sentinel in the body.
C11_NothingAfterSentinel ==
  \A s \in Sessions :
    \A k \in 1..pos[s] :
      (status[s] = StatusOK /\ IsDoneLine(body[s][k]))
        => /\ pos[s] = k
           /\ PastLoop(s)
           /\ pending[s] = <<>>
           /\ retErr[s] = Nil
           /\ errSent[s] = 0
           /\ delivered[s] = Chunks(Before(body[s], k))
           /\ pc[s] = "done" => ErrYield(s) = Nil

C11_Witness ==
  /\ pc[1] = "done"
  /\ body[1] = <<LChunkA, LDone, LBad>>
  /\ pos[1] = 2
  /\ delivered[1] = <<[ID |-> "A"]>>
  /\ ErrYield(1) = Nil

\* C16: a session that fails before a response exists (serialization,
\* request construction, transport, a context cancelled before or during
\* the connect) never delivers a chunk nor reads a body, and ends with
\* exactly one non-nil error sent on errChan and both channels closed.
C16_EarlyFailure ==
  \A s \in Sessions :
    (status[s] = 0 /\ pc[s] \notin {"off", "idle"})
      => /\ delivered[s] = <<>>
         /\ pending[s] = <<>>
         /\ pos[s] = 0
         /\ bodyReads[s] = "none"
         /\ PastLoop(s) => (retErr[s] # Nil /\ retErr[s].kind = "wrapped")
         /\ pc[s] \in {"closeErr", "closeResp", "done"}
              => (errSent[s] = 1 /\ errBuf[s] = <<retErr[s]>>)
         /\ pc[s] = "done"
              => (errCloses[s] = 1 /\ respCloses[s] = 1 /\ ErrYield(s) # Nil)

C16_Witness ==
  /\ pc[1] = "done"
  /\ status[1] = 0
  /\ cancelled[1]
  /\ cancelPc[1] = "newRequest"
  /\ ErrYield(1) = Wrap("failed to execute request", Canceled)

ReadErrs == {Wrap("error reading stream", IoErr), Wrap("error reading stream", ErrTooLong)}

C18_SynchronousHandOff ==
  /\ [](\A s \in Sessions :
          /\ Len(pending[s]) <= 1
          /\ (pending[s] # <<>>) = (pc[s] = "select")
          /\ pc[s] \in {"scan", "select"}
               => Chunks(SubSeq(body[s], 1, pos[s])) = delivered[s] \o pending[s])
  /\ [][\A s \in Sessions :
          /\ pos'[s] # pos[s] => pending[s] = <<>>
          /\ (pending[s] # <<>> /\ pending'[s] = <<>>)
               => \/ delivered'[s] = delivered[s] \o pending[s]
                  \/ (cancelled[s] /\ delivered'[s] = delivered[s])]_vars

C18_Witness ==
  /\ pc[1] = "select"
  /\ pos[1] = 2
  /\ delivered[1] = <<[ID |-> "A"]>>
  /\ pending[1] = <<[ID |-> "B"]>>
  /\ Len(body[1]) = 3

\* C19 (as claimed): a cancellation never aborts a read; the session reacts
\* to it only at a hand-off.
C19_ReadNeverAborted ==
  \A s \in Sessions :
    (cancelled[s] /\ cancelPc[s] \in {"scan", "select"} /\ PastLoop(s))
      => retErr[s] # Wrap("error reading stream", Canceled)

\* C19 (amended): cancel() itself changes nothing of the session; the loop
\* returns the context's error only at a hand-off, with the context
\* cancelled; anywhere else the session ends by a cancellation only through
\* a read the transport failed, with the wrapped read error.
C19_CooperativeCancel ==
  /\ [][\A s \in Sessions :
          /\ cancelled'[s] # cancelled[s]
               => /\ pc'[s] = pc[s]
                  /\ retErr'[s] = retErr[s]
                  /\ pos'[s] = pos[s]
                  /\ pending'[s] = pending[s]
                  /\ bodyState'[s] = bodyState[s]
          /\ (retErr'[s] = Canceled /\ retErr[s] # Canceled)
               => (pc[s] = "select" /\ cancelled[s])
          /\ (retErr'[s] = Wrap("error reading stream", Canceled) /\ retErr[s] = Nil)
               => (pc[s] = "scan" /\ cancelled[s])]_vars
  /\ [](\A s \in Sessions :
          (PastLoop(s) /\ status[s] = StatusOK /\ ~cancelled[s])
            => retErr[s] \in {Nil, ParseErr} \cup ReadErrs)

C19_Witness ==
  /\ pc[1] = "done"
  /\ cancelPc[1] = "scan"
  /\ Len(delivered[1]) = 1
  /\ ErrYield(1) = Wrap("error reading stream", Canceled)

\* C12: the Stream field of the request object is true from the return of
\* CreateChatCompletionStream on and is never reset, the Model field is
\* never written; the body the session serializes and sends has stream=true
\* whatever the field was before, and a CreateChatCompletion made with the
\* same object after that return sends stream=true too.
C12_StreamFlagSticks ==
  /\ [](\A s \in Sessions :
          pc[s] \notin {"off", "idle"}
            => /\ reqStream[s]
               /\ sentStream[s] \in {"none", "true"}
               /\ httpReq[s] # NoReq => httpReq[s].body = "true")
  /\ [][/\ reqModel' = reqModel
        /\ \A s \in Sessions : reqStream[s] => reqStream'[s]
        /\ \A s \in Sessions :
             (reqStream'[s] # reqStream[s]) => (pc[s] = "idle" /\ pc'[s] = "marshal")]_vars
  /\ []((syncCall.endpoint = "CreateChatCompletion" /\ syncReq # NoReq)
            => syncReq.body = "true")

C12_Witness ==
  /\ pc[1] = "done"
  /\ retErr[1] = ParseErr
  /\ syncCall = [endpoint |-> "CreateChatCompletion", obj |-> 1, at |-> "done"]
  /\ syncReq.body = "true"
  /\ httpReq[1].body = "true"
  /\ syncRes = Nil

\* The APIErrors returned, each with the status and the body of its response.
ApiErrors ==
  {[err |-> retErr[s], status |-> status[s], body |-> body[s]] :
     s \in {x \in Sessions : retErr[x].kind = "APIError"}}
  \cup (IF syncRes.kind = "APIError"
        THEN {[err |-> syncRes, status |-> syncResp.status, body |-> syncResp.body]}
        ELSE {})

\* C14: every APIError returned by handleErrorResponse, from a streaming
\* session or from doRequest, has the status of its response as StatusCode,
\* whether the body decoded (message, type and code are then the body's) or
\* not; a status member in the body changes nothing.
C14_StatusCodeIsHttpStatus ==
  \A e \in ApiErrors :
    /\ e.err.StatusCode = e.status
    /\ e.status \in Statuses \ {StatusOK}
    /\ e.body = <<LError>>
         => (e.err.Message = <<"m">> /\ e.err.Type = "t" /\ e.err.Code = "c")
    /\ e.body = <<LStatus>>
         => (e.err.Message = <<"m">> /\ e.err.Type = "" /\ e.err.Code = "")

C14_Witness ==
  /\ syncRes.kind = "APIError"
  /\ syncResp = [status |-> 404, body |-> <<LStatus>>]
  /\ syncRes.StatusCode = 404
  /\ retErr[1].kind = "APIError"
  /\ body[1] = <<LText>>
  /\ retErr[1].StatusCode = 201

\* The body is one JSON object that has a message.
ExpectedShape(lines) == lines \in {<<LError>>, <<LStatus>>}

\* The body is one JSON object.
IsObject(lines) == lines \in {<<LError>>, <<LStatus>>, <<LEmptyObj>>, <<LNested>>}

\* C15 (as claimed): every body that is not an error object with a message
\* gives the raw-body error.
C15_RawBodyUnlessShape ==
  \A e \in ApiErrors :
    ~ExpectedShape(e.body)
      => (e.err.Message = Flatten(e.body) /\ e.err.Type = "" /\ e.err.Code = "")

\* C15 (amended): the raw-body error is returned exactly when the body does
\* not decode as one JSON object (plain text, empty body, an object followed
\* by more text); a JSON object without a message ({} or a nested error)
\* decodes, and the error has an empty Message, Type and Code.
C15_RawBodyOnDecodeFailure ==
  \A e \in ApiErrors :
    /\ ~IsObject(e.body)
         => (e.err.Message = Flatten(e.body) /\ e.err.Type = "" /\ e.err.Code = "")
    /\ (IsObject(e.body) /\ ~ExpectedShape(e.body))
         => (e.err.Message = <<"">> /\ e.err.Type = "" /\ e.err.Code = "")
    /\ e.err.StatusCode = e.status

C15_Witness ==
  /\ syncRes.kind = "APIError"
  /\ syncResp.body = <<LNested>>
  /\ syncRes.Message = <<"">>
  /\ retErr[1].kind = "APIError"
  /\ body[1] = <<LError, LText>>
  /\ retErr[1].Message = <<"{E}", "LF", "text", "LF">>

\* C20: the request a streaming session builds is POST baseURL +
\* /v1/chat/completions with Accept: text/event-stream; the request
\* doRequest builds has Accept: application/json; both have Authorization:
\* Bearer + the Client's apiKey and Content-Type: application/json, for
\* each client configuration.
C20_RequestHeaders ==
  /\ \A s \in Sessions :
       httpReq[s] # NoReq
         => /\ httpReq[s].method = "POST"
            /\ httpReq[s].url = client.baseURL \o <<"/v1/chat/completions">>
            /\ httpReq[s].Accept = "text/event-stream"
            /\ httpReq[s].Authorization = <<"Bearer ", client.apiKey>>
            /\ httpReq[s].ContentType = "application/json"
  /\ syncReq # NoReq
       => /\ syncReq.Accept = "application/json"
          /\ syncReq.Authorization = <<"Bearer ", client.apiKey>>
          /\ syncReq.ContentType = "application/json"
          /\ syncReq.method = (CASE syncCall.endpoint = "ListModels" -> "GET"
                                  [] syncCall.endpoint = "doRequest" -> "DELETE"
                                  [] OTHER -> "POST")
  /\ \A s \in Sessions :
       (status[s] # 0 \/ retErr[s] = Wrap("failed to execute request", NetErr))
         => httpReq[s] # NoReq
  /\ syncResp.status # 0 => syncReq # NoReq

C20_Witness ==
  /\ client.apiKey = "k2"
  /\ httpReq[1].Accept = "text/event-stream"
  /\ httpReq[1].Authorization = <<"Bearer ", "k2">>
  /\ syncCall.endpoint = "ListModels"
  /\ syncReq.Accept = "application/json"
  /\ syncReq.Authorization = httpReq[1].Authorization
  /\ syncResp.status = 200

\* All that belongs to session s.
SessionState(s) ==
  <<pc[s], reqStream[s], reqModel[s], sentStream[s], httpReq[s], body[s],
    bodyEnd[s], status[s], bodyState[s], bodyCloses[s], bodyReads[s], pos[s],
    pending[s], delivered[s], retErr[s], errBuf[s], errSent[s], errCloses[s],
    respCloses[s], cancelled[s], cancelPc[s], cancelLen[s], consumer[s]>>

\* The chunks of a body up to its sentinel or first malformed payload.
ChunksToStop(lines) ==
  IF FirstStop(lines) = 0 THEN Chunks(lines)
  ELSE Chunks(Before(lines, FirstStop(lines)))

\* The return value of an undisturbed session over a body.
Outcome(lines, end) ==
  IF FirstStop(lines) # 0
  THEN IF IsDoneLine(lines[FirstStop(lines)]) THEN Nil ELSE ParseErr
  ELSE CASE end = "eof"     -> Nil
         [] end = "io"      -> Wrap("error reading stream", IoErr)
         [] end = "toolong" -> Wrap("error reading stream", ErrTooLong)
         [] OTHER           -> Nil

\* C13: with two sessions running concurrently on one Client, every step
\* changes the state of one session only and never the Client; the chunks a
\* session's consumer received are at every moment a prefix of the chunks
\* of that session's own body, and a session that was not itself cancelled
\* and whose consumer receives ends with all its own chunks and its own
\* terminal outcome, whatever the other session does (cancelled or not).
C13_SessionsIndependent ==
  /\ [][/\ client' = client
        /\ \A s, r \in Sessions :
             (s # r /\ SessionState(s)' # SessionState(s))
               => SessionState(r)' = SessionState(r)]_vars
  /\ [](\A s \in Sessions :
          /\ IsPrefixOf(delivered[s], Chunks(body[s]))
          /\ (pc[s] = "done" /\ Undisturbed(s))
               => /\ delivered[s] = ChunksToStop(body[s])
                  /\ ErrYield(s) = Outcome(body[s], bodyEnd[s])
                  /\ errCloses[s] = 1 /\ respCloses[s] = 1
          /\ (pc[s] = "done" /\ status[s] \notin {0, StatusOK})
               => (delivered[s] = <<>> /\ ErrYield(s) = handleErrorResponse(status[s], body[s])))

C13_Witness ==
  /\ pc[1] = "done" /\ pc[2] = "done"
  /\ body[1] = <<LChunkA, LDone>>
  /\ body[2] = <<LChunkB, LChunkA>>
  /\ cancelled[2] /\ cancelPc[2] = "select" /\ cancelLen[2] = 1
  /\ delivered[2] = <<[ID |-> "B"]>>
  /\ ErrYield(2) = Canceled
  /\ Undisturbed(1)
  /\ cancelLen[2] = 1
  /\ delivered[1] = <<[ID |-> "A"]>>
  /\ ErrYield(1) = Nil

\* C22: a session calls httpClient.Do at most once, and exactly once when it
\* got as far as the call; once streamChatCompletion has returned, for
\* whatever reason, the session only goes on to report and close: no request
\* is built or sent again, nothing is serialized or read again, the return
\* value stays, and it is sent on errChan at most once, exactly once when
\* it is not nil.
C22_NoRetry ==
  /\ [](\A s \in Sessions :
          /\ doCalls[s] <= 1
          /\ doCalls[s] = 1
               <=> /\ pc[s] \notin {"off", "idle", "marshal", "newRequest", "do"}
                   /\ ~(/\ retErr[s].kind = "wrapped"
                        /\ retErr[s].msg \in {"failed to marshal request",
                                               "failed to create request"})
          /\ errSent[s] <= 1
          /\ pc[s] = "done" => (errSent[s] = 1 <=> retErr[s] # Nil))
  /\ [][\A s \in Sessions :
          PastLoop(s)
            => /\ PastLoop(s)'
               /\ doCalls'[s] = doCalls[s]
               /\ httpReq'[s] = httpReq[s]
               /\ sentStream'[s] = sentStream[s]
               /\ pos'[s] = pos[s]
               /\ delivered'[s] = delivered[s]
               /\ retErr'[s] = retErr[s]]_vars

C22_Witness ==
  /\ pc[1] = "done"
  /\ doCalls[1] = 1
  /\ errSent[1] = 1
  /\ Len(delivered[1]) = 1
  /\ ErrYield(1) = Wrap("error reading stream", IoErr)

\* The producer is at the hand-off, the consumer has stopped receiving and
\* the context is not cancelled.
Stuck(s) == pc[s] = "select" /\ consumer[s] = "stopped" /\ ~cancelled[s]

\* C28: while the consumer has stopped receiving with a chunk pending and the
\* context is not cancelled, the session stays where it is, even with the
\* goroutine scheduled fairly: the chunk stays pending, streamChatCompletion
\* has not returned, nothing was sent on errChan, neither channel is closed
\* and the response body is open; only a cancellation ends this.
C28_BlockedForever ==
  /\ [](\A s \in Sessions :
          Stuck(s)
            => /\ Len(pending[s]) = 1
               /\ retErr[s] = Nil
               /\ errSent[s] = 0 /\ errBuf[s] = <<>>
               /\ errCloses[s] = 0 /\ respCloses[s] = 0
               /\ bodyState[s] = "open" /\ bodyCloses[s] = 0)
  /\ [][\A s \in Sessions :
          Stuck(s)
            => \/ Stuck(s)' /\ SessionState(s)' = SessionState(s)
               \/ cancelled'[s] /\ pc'[s] = "select"]_vars

C28_Witness ==
  /\ Stuck(1)
  /\ delivered[1] = <<[ID |-> "A"]>>
  /\ pending[1] = <<[ID |-> "A"]>>
  /\ pos[1] = 2

\* C26: whenever respChan is closed, errChan is closed too and the terminal
\* error, when there is one, is in its buffer or was received; so the
\* receive the doc comment's consumer makes after its range loop is ready
\* at once, and what it yields is the return value of streamChatCompletion
\* (nil from the closed channel on success).
C26_ErrChanSettledFirst ==
  \A s \in Sessions :
    /\ respCloses[s] > 0
         => /\ errCloses[s] = 1
            /\ ErrReady(s)
            /\ errRecv[s] = <<>> => ErrHead(s) = retErr[s]
    /\ errRecv[s] # <<>>
         => (errRecv[s] = <<retErr[s]>> /\ pc[s] = "done" /\ consumer[s] = "finished")

C26_Witness ==
  /\ consumer[1] = "finished"
  /\ errRecv[1] = <<ParseErr>>
  /\ delivered[1] = <<[ID |-> "A"]>>
  /\ respCloses[1] = 1

\* C27: with the README's consumer, nothing of errChan and no closed
\* respChan can be observed before streamChatCompletion has returned with
\* no chunk pending, every chunk it decoded received (but for the one a
\* cancellation dropped at the hand-off); at the end of a failed session
\* the closed respChan and the buffered error are ready together, and the
\* consumer that has returned holds either that error or nothing.
C27_ReadmeConsumer ==
  \A s \in Sessions :
    /\ (ErrReady(s) \/ respCloses[s] > 0 \/ errRecv[s] # <<>>)
         => /\ PastLoop(s)
            /\ pending[s] = <<>>
            /\ retErr[s] # Canceled
                 => delivered[s] = Chunks(SubSeq(body[s], 1, pos[s]))
    /\ (pc[s] = "done" /\ retErr[s] # Nil /\ errRecv[s] = <<>>)
         => (errBuf[s] = <<retErr[s]>> /\ respCloses[s] = 1)
    /\ errRecv[s] \in {<<>>, <<retErr[s]>>}

\* The consumer returned on the closed respChan; the error of the failed
\* session is still in errChan, never received.
C27_Witness ==
  /\ consumer[1] = "finished"
  /\ ~cancelled[1]
  /\ retErr[1] = ParseErr
  /\ delivered[1] = <<[ID |-> "A"]>>
  /\ errRecv[1] = <<>>
  /\ errBuf[1] = <<ParseErr>>

\* C29: CreateChatCompletionStream returns with nothing serialized yet; the
\* goroutine serializes the request object as it is at that later moment,
\* so a write the caller made in between is what is sent (stream=false, or
\* another model), while a request the caller did not write is sent with
\* stream=true and its original model.
C29_SerializedAfterReturn ==
  /\ [](\A s \in Sessions :
          /\ pc[s] = "marshal" => (sentStream[s] = "none" /\ sentModel[s] = "none")
          /\ (~callerWrote[s] /\ sentStream[s] # "none")
               => (sentStream[s] = "true" /\ sentModel[s] = OrigModel(s))
          /\ httpReq[s] # NoReq => httpReq[s].body = sentStream[s])
  /\ [][\A s \in Sessions :
          /\ (pc[s] = "idle" /\ pc'[s] # "idle")
               => (pc'[s] = "marshal" /\ sentStream'[s] = "none" /\ reqStream'[s])
          /\ sentStream'[s] # sentStream[s]
               => /\ pc[s] = "marshal"
                  /\ sentStream'[s] = (IF reqStream[s] THEN "true" ELSE "false")
                  /\ sentModel'[s] = reqModel[s]]_vars

C29_Witness ==
  /\ callerWrote[1]
  /\ ~reqStream[1]
  /\ sentStream[1] = "false"
  /\ httpReq[1].body = "false"
  /\ status[1] = StatusOK
  /\ delivered[1] = <<[ID |-> "A"]>>

\* The call passed a result to decode into.
HasResult == syncCall.endpoint \in {"CreateChatCompletion", "ListModels"}

\* The response of the non-streaming call has a 2xx status.
Sync2xx == syncResp.status >= 200 /\ syncResp.status < 300

\* C23 (as claimed): with a result, every 2xx response whose body is empty
\* or is not valid JSON gives a decode error.
C23_InvalidJsonIsDecodeError ==
  (HasResult /\ Sync2xx /\ ~IsObject(syncResp.body))
    => (syncRes.kind = "wrapped" /\ syncRes.msg = "failed to decode response")

\* C23 (amended): the body is decoded exactly when a result was passed and
\* the status is 2xx. Without a result every 2xx response gives nil and the
\* body is not read, an empty 204 body included; with a nil request body
\* the request has no body. With a result, a 2xx body that is empty or
\* does not begin with a JSON value gives the decode error; a body that
\* begins with a JSON value gives nil, whatever follows that value.
C23_DecodeIffResult ==
  /\ syncBody.reads = "decoder" <=> (HasResult /\ Sync2xx)
  /\ (syncCall.endpoint = "doRequest" /\ Sync2xx)
       => (syncRes = Nil /\ syncBody.reads = "none")
  /\ (syncCall.endpoint \in {"doRequest", "ListModels"} /\ syncReq # NoReq)
       => syncReq.body = "nil"
  /\ (HasResult /\ Sync2xx /\ syncResp.body \in {<<>>, <<LText>>})
       => /\ syncRes.kind = "wrapped"
          /\ syncRes.msg = "failed to decode response"
          /\ syncRes.cause = (IF syncResp.body = <<>> THEN EofErr ELSE JsonErr)
  /\ (HasResult /\ Sync2xx /\ syncResp.body # <<>> /\ IsObject(<<syncResp.body[1]>>))
       => syncRes = Nil
  /\ syncResp.status # 0 => syncBody = [state |-> "closed", closes |-> 1, reads |-> syncBody.reads]

C23_Witness ==
  /\ syncCall.endpoint = "ListModels"
  /\ syncResp = [status |-> 200, body |-> <<LError, LText>>]
  /\ syncRes = Nil
  /\ syncReq.body = "nil"

\* C25: a status of 201..299 is a success for doRequest (no APIError, the
\* body is decoded if a result was passed) and a failure for a streaming
\* session: the session returns an APIError with that status, reads no line
\* and delivers no chunk, even over a well-formed event stream; 200 is a
\* success for both.
C25_SuccessStatusDiffers ==
  /\ (syncResp.status > StatusOK /\ syncResp.status < 300)
       => /\ syncRes.kind # "APIError"
          /\ syncBody.reads # "readall"
          /\ ~HasResult => syncRes = Nil
  /\ syncRes.kind = "APIError" <=> (syncResp.status # 0 /\ ~Sync2xx)
  /\ \A s \in Sessions :
       /\ (status[s] > StatusOK /\ status[s] < 300)
            => /\ PastLoop(s)
               /\ retErr[s].kind = "APIError"
               /\ retErr[s].StatusCode = status[s]
               /\ pos[s] = 0 /\ pending[s] = <<>> /\ delivered[s] = <<>>
               /\ bodyReads[s] = "readall"
       /\ retErr[s].kind = "APIError" <=> status[s] \notin {0, StatusOK}

C25_Witness ==
  /\ pc[1] = "done"
  /\ status[1] = 201
  /\ body[1] = <<LChunkA, LDone>>
  /\ delivered[1] = <<>>
  /\ ErrYield(1).kind = "APIError"
  /\ ErrYield(1).StatusCode = 201
  /\ syncResp.status = 201
  /\ syncRes = Nil

\* C24: DownloadFile returns the response body as the reader exactly for a
\* 2xx response, with a nil error, unread and open, and the library never
\* calls its Close, then or later: it is the caller who reads and closes
\* it. For a non-2xx response it returns a nil reader and the APIError of
\* that response, and has closed the body once itself.
C24_DownloadFileOwnership ==
  /\ [](syncRes # NoCall
          => /\ syncRes.kind = "pair"
             /\ syncRes.reader = "body" <=> (syncResp.status # 0 /\ Sync2xx)
             /\ syncRes.reader = "body"
                  => /\ syncRes.err = Nil
                     /\ syncBody.closes = 0
                     /\ syncBody.reads \in {"none", "caller"}
                     /\ syncBody.state \in {"open", "closed by caller"}
             /\ (syncResp.status # 0 /\ ~Sync2xx)
                  => /\ syncRes.reader = "nil"
                     /\ syncRes.err.kind = "APIError"
                     /\ syncRes.err.StatusCode = syncResp.status
                     /\ syncBody = [state |-> "closed", closes |-> 1, reads |-> "readall"]
             /\ syncResp.status = 0
                  => (syncRes.reader = "nil" /\ syncRes.err.kind = "wrapped"
                      /\ syncBody = NoBody))
  /\ [][/\ (syncRes = NoCall /\ syncRes' # NoCall /\ syncRes'.reader = "body")
             => syncBody' = [state |-> "open", closes |-> 0, reads |-> "none"]
        /\ syncRes # NoCall
             => (syncBody'.closes = syncBody.closes /\ syncRes' = syncRes)]_vars

C24_Witness ==
  /\ syncCall.endpoint = "DownloadFile"
  /\ syncResp = [status |-> 200, body |-> <<LText>>]
  /\ syncRes = Pair("body", Nil)
  /\ syncBody = [state |-> "closed by caller", closes |-> 0, reads |-> "caller"]

\* The places of an option in a list, and the last of them (0: none).
Places(opts, op) == {i \in 1..Len(opts) : opts[i].op = op}

LastPlace(opts, op) ==
  IF Places(opts, op) = {} THEN 0
  ELSE CHOOSE i \in Places(opts, op) : \A j \in Places(opts, op) : j <= i

\* The http.Client object a client under construction holds when the
\* option at place i runs.
HeldAt(b, i) ==
  LET before == {j \in Places(b.opts, "WithHTTPClient") : j < i}
  IN  IF before = {} THEN b.fresh
      ELSE b.opts[CHOOSE j \in before : \A k \in before : k <= j].arg

\* The place of the WithTimeout that runs on a nil http.Client (0: none),
\* and the places of those that wrote a Timeout.
PanicPlace(b) ==
  LET bad == {i \in Places(b.opts, "WithTimeout") : HeldAt(b, i) = NilHttp}
  IN  IF bad = {} THEN 0 ELSE CHOOSE i \in bad : \A j \in bad : i <= j

Wrote(b) ==
  {i \in Places(b.opts, "WithTimeout") : PanicPlace(b) = 0 \/ i < PanicPlace(b)}

\* C21: a Client built by NewClient has the default base URL unless
\* WithBaseURL was passed, then the one of its last occurrence; it holds a
\* fresh http.Client with the 60 s timeout unless WithHTTPClient was passed,
\* then the object of its last occurrence; the last WithTimeout(t) decides
\* the timeout of the object held when it runs, so WithHTTPClient(h)
\* followed by WithTimeout(t) gives a client holding h with h's timeout t.
\* NewClient returns a Client unless a WithTimeout runs while nil is held.
C21_OptionsInOrder ==
  \A i \in 1..Len(built) :
    LET b  == built[i]
        lu == LastPlace(b.opts, "WithBaseURL")
        lh == LastPlace(b.opts, "WithHTTPClient")
        lt == LastPlace(b.opts, "WithTimeout")
    IN  /\ b.before[b.fresh] = 0
        /\ b.panic <=> PanicPlace(b) # 0
        /\ ~b.panic =>
             /\ b.c.apiKey = "k1"
             /\ b.c.baseURL = (IF lu = 0 THEN defaultBaseURL ELSE b.opts[lu].arg)
             /\ b.c.httpClient = (IF lh = 0 THEN b.fresh ELSE b.opts[lh].arg)
             /\ lt = 0 => b.after[b.fresh] = defaultTimeout
             /\ lt # 0 => b.after[HeldAt(b, lt)] = b.opts[lt].arg
             /\ (lh # 0 /\ lt > lh)
                  => (b.c.httpClient = b.opts[lh].arg
                      /\ b.c.httpClient \in CallerHttp
                      /\ b.after[b.c.httpClient] = b.opts[lt].arg)
             /\ b.opts = <<>>
                  => b.c = [baseURL |-> <<"https://api.mistral.ai">>, apiKey |-> "k1",
                            httpClient |-> b.fresh]

C21_Witness ==
  /\ Len(built) = 2
  /\ built[1].opts = <<[op |-> "WithTimeout", arg |-> 10], [op |-> "WithTimeout", arg |-> 30]>>
  /\ timeouts[built[1].c.httpClient] = 30
  /\ built[2].opts = <<[op |-> "WithHTTPClient", arg |-> "h1"], [op |-> "WithTimeout", arg |-> 10]>>
  /\ ~built[2].panic
  /\ built[2].c.httpClient = "h1"
  /\ timeouts["h1"] = 10

====
